---------------------------- MODULE Spec2Model ----------------------------
(***************************************************************************)
(* A model of pyietflib.iso8601: the isodate, isotime and isodatetime      *)
(* value types, their construction routes, their field computation, their  *)
(* ISO 8601 parsing and formatting, and the class-wide "today" cache.      *)
(*                                                                         *)
(* Strings are sequences of one-character strings, so that formatting and  *)
(* parsing are computed character by character as the code does.           *)
(***************************************************************************)
EXTENDS Integers, Sequences, FiniteSets, TLC

(***************************************************************************)
(* Python values                                                           *)
(***************************************************************************)

\* Python's None in an integer position.
None == 0 - 100000

\* The outcome of a call: a value, or the exception it raised.
Ok(v) == [err |-> "none", val |-> v]
Raise(e) == [err |-> e, val |-> <<>>]

Min(S) == CHOOSE x \in S : \A y \in S : x <= y

Abs(n) == IF n < 0 THEN 0 - n ELSE n

RECURSIVE BitAnd(_, _)
\* Python's a & b on non-negative integers.
BitAnd(a, b) ==
    IF a = 0 \/ b = 0 THEN 0
    ELSE (IF a % 2 = 1 /\ b % 2 = 1 THEN 1 ELSE 0) + 2 * BitAnd(a \div 2, b \div 2)

RECURSIVE BitOr(_, _)
\* Python's a | b on non-negative integers.
BitOr(a, b) ==
    IF a = 0 THEN b
    ELSE IF b = 0 THEN a
    ELSE (IF a % 2 = 1 \/ b % 2 = 1 THEN 1 ELSE 0) + 2 * BitOr(a \div 2, b \div 2)

(***************************************************************************)
(* Strings                                                                 *)
(***************************************************************************)

Digits == <<"0", "1", "2", "3", "4", "5", "6", "7", "8", "9">>

DigitChars == {Digits[i] : i \in 1..10}

DigitVal(ch) == (CHOOSE i \in 1..10 : Digits[i] = ch) - 1

RECURSIVE DecStr(_)
\* The decimal digits of a non-negative integer.
DecStr(n) == IF n < 10 THEN <<Digits[n + 1]>> ELSE DecStr(n \div 10) \o <<Digits[(n % 10) + 1]>>

RECURSIVE Zeros(_)
Zeros(k) == IF k <= 0 THEN <<>> ELSE <<"0">> \o Zeros(k - 1)

\* Python's format(n, "0<width>d"): zero padded to at least width characters,
\* a minus sign counting as one of them.
FmtD(n, width) ==
    IF n >= 0
    THEN Zeros(width - Len(DecStr(n))) \o DecStr(n)
    ELSE <<"-">> \o Zeros(width - 1 - Len(DecStr(0 - n))) \o DecStr(0 - n)

\* Python's format(n, "0=+2d"): a sign, then zero padding to width 2.
FmtSigned(n) ==
    IF n >= 0
    THEN <<"+">> \o Zeros(1 - Len(DecStr(n))) \o DecStr(n)
    ELSE <<"-">> \o Zeros(1 - Len(DecStr(0 - n))) \o DecStr(0 - n)

RECURSIVE StrInt(_)
\* Python's int(s) for a string of ASCII digits.
StrInt(s) ==
    IF Len(s) = 0 THEN 0
    ELSE 10 * StrInt(SubSeq(s, 1, Len(s) - 1)) + DigitVal(s[Len(s)])

Contains(s, ch) == \E i \in 1..Len(s) : s[i] = ch

AllDigits(s) == \A i \in 1..Len(s) : s[i] \in DigitChars

(***************************************************************************)
(* The platform calendar (datetime.date), the proleptic Gregorian one      *)
(***************************************************************************)

PlatformLeap(y) == y % 4 = 0 /\ (y % 100 # 0 \/ y % 400 = 0)

PlatformDaysBeforeYear(y) ==
    (y - 1) * 365 + (y - 1) \div 4 - (y - 1) \div 100 + (y - 1) \div 400

PlatformDaysInMonth(y, m) ==
    IF m = 2 THEN (IF PlatformLeap(y) THEN 29 ELSE 28)
    ELSE IF m \in {4, 6, 9, 11} THEN 30 ELSE 31

RECURSIVE PlatformDaysBeforeMonth(_, _)
PlatformDaysBeforeMonth(y, m) ==
    IF m <= 1 THEN 0 ELSE PlatformDaysBeforeMonth(y, m - 1) + PlatformDaysInMonth(y, m - 1)

\* datetime.date(y, m, d).toordinal()
PlatformOrdinal(y, m, d) == PlatformDaysBeforeYear(y) + PlatformDaysBeforeMonth(y, m) + d

\* datetime.date.max.toordinal(), the ordinal of 31 December 9999
MaxOrdinal == PlatformOrdinal(9999, 12, 31)

\* datetime.date.fromordinal(o): the fields year, month, day and tm_yday
PlatformFromOrdinal(o) ==
    LET y == CHOOSE yy \in (o \div 366)..(o \div 365 + 1) :
                 PlatformDaysBeforeYear(yy) < o /\ o <= PlatformDaysBeforeYear(yy + 1)
        yday == o - PlatformDaysBeforeYear(y)
        m == CHOOSE mm \in 1..12 :
                 PlatformDaysBeforeMonth(y, mm) < yday
                 /\ yday <= PlatformDaysBeforeMonth(y, mm) + PlatformDaysInMonth(y, mm)
    IN [year |-> y, month |-> m, day |-> yday - PlatformDaysBeforeMonth(y, m), yday |-> yday]

\* The ordinal of the Monday that starts ISO week 1 of year y.
PlatformIsoWeek1Monday(y) ==
    LET firstday == PlatformOrdinal(y, 1, 1)
        firstweekday == (firstday + 6) % 7
        week1monday == firstday - firstweekday
    IN IF firstweekday > 3 THEN week1monday + 7 ELSE week1monday

\* datetime.date.isocalendar() of the day with ordinal o: <<year, week, day>>
PlatformIsoCalendar(o) ==
    LET y == PlatformFromOrdinal(o).year
        w1 == PlatformIsoWeek1Monday(y)
        week == (o - w1) \div 7
        day == (o - w1) % 7
    IN IF week < 0
       THEN <<y - 1, (o - PlatformIsoWeek1Monday(y - 1)) \div 7 + 1, day + 1>>
       ELSE IF week >= 52 /\ o >= PlatformIsoWeek1Monday(y + 1)
            THEN <<y + 1, 1, day + 1>>
            ELSE <<y, week + 1, day + 1>>

(***************************************************************************)
(* isodate: tables and field computation                                   *)
(***************************************************************************)

\* The eleven fields of an isodate, in constructor order.
FieldNames == <<"expanded", "century", "year", "month", "dayofmonth", "dayofyear",
                "weekcentury", "weekdecade", "weekyearofdec", "weekofyear", "dayofweek">>

Fields(e, c, y, m, dm, dy, wc, wd, wy, wk, dw) ==
    [expanded |-> e, century |-> c, year |-> y, month |-> m, dayofmonth |-> dm,
     dayofyear |-> dy, weekcentury |-> wc, weekdecade |-> wd, weekyearofdec |-> wy,
     weekofyear |-> wk, dayofweek |-> dw]

NoFields == Fields(None, None, None, None, None, None, None, None, None, None, None)

\* isodate.months, indexed 0..12: days, days in a leap year, the range of
\* ordinal days, the range of ordinal days in a leap year.
monthsTable == <<
    [name |-> "None",      days |-> 0,  leapdays |-> 0,  range |-> <<0, 0>>,     leaprange |-> <<0, 0>>],
    [name |-> "January",   days |-> 31, leapdays |-> 31, range |-> <<1, 31>>,    leaprange |-> <<1, 31>>],
    [name |-> "February",  days |-> 28, leapdays |-> 29, range |-> <<32, 59>>,   leaprange |-> <<32, 60>>],
    [name |-> "March",     days |-> 31, leapdays |-> 31, range |-> <<60, 90>>,   leaprange |-> <<61, 91>>],
    [name |-> "April",     days |-> 30, leapdays |-> 30, range |-> <<91, 120>>,  leaprange |-> <<92, 121>>],
    [name |-> "May",       days |-> 31, leapdays |-> 31, range |-> <<121, 151>>, leaprange |-> <<122, 152>>],
    [name |-> "June",      days |-> 30, leapdays |-> 30, range |-> <<152, 181>>, leaprange |-> <<153, 182>>],
    [name |-> "July",      days |-> 31, leapdays |-> 31, range |-> <<182, 212>>, leaprange |-> <<183, 213>>],
    [name |-> "August",    days |-> 31, leapdays |-> 31, range |-> <<213, 243>>, leaprange |-> <<214, 244>>],
    [name |-> "September", days |-> 30, leapdays |-> 30, range |-> <<244, 273>>, leaprange |-> <<245, 274>>],
    [name |-> "October",   days |-> 31, leapdays |-> 31, range |-> <<274, 304>>, leaprange |-> <<275, 305>>],
    [name |-> "November",  days |-> 30, leapdays |-> 30, range |-> <<305, 334>>, leaprange |-> <<306, 335>>],
    [name |-> "December",  days |-> 31, leapdays |-> 31, range |-> <<335, 365>>, leaprange |-> <<336, 366>> ] >>

\* months[i] with Python's list indexing: 0..12, and -13..-1 counted from the end.
MonthIndexOk(i) == i \in (0 - 13)..12

months(i) == monthsTable[IF i >= 0 THEN i + 1 ELSE i + 14]

\* m[mrangeoff] with mrangeoff = 3 if not leap else 4
mrange(m, leap) == IF leap THEN m.leaprange ELSE m.range

\* The leap test of the Gregorian calendar: a faulty variant of the rule.
leap_rule_gregorian(century, year) == PlatformLeap(century * 100 + year)

\* The leap test that date.py writes out in each computation.
leap_rule(century, year) == year % 4 = 0 /\ (century # 0 \/ century % 4 = 0)

is_leap_year(expanded, century, year) == leap_rule(century, year)

days_in_month(expanded, century, year, month) ==
    IF is_leap_year(expanded, century, year) THEN months(month).leapdays ELSE months(month).days

days_in_year(expanded, century, year) ==
    IF ~is_leap_year(expanded, century, year) THEN 365 ELSE 366

\* m[mrangeoff][0] <= dayofyear <= m[mrangeoff][1]
in_range(rng, dayofyear) == rng[1] <= dayofyear /\ dayofyear <= rng[2]

\* The return of calendar_from_ordinal in month i, None when the loop ends
\* without a month.
calendar_in_month(expanded, century, year, dayofyear, leap, i) ==
    IF i = None
    THEN Raise("ValueError")
    ELSE Ok(<<expanded, century, year, i, dayofyear - mrange(months(i), leap)[1] + 1>>)

\* The first index the loop of calendar_from_ordinal stops at.
first_month(hits) == IF hits = {} THEN None ELSE Min(hits)

calendar_from_ordinal(expanded, century, year, dayofyear) ==
    calendar_in_month(expanded, century, year, dayofyear, leap_rule(century, year),
        first_month({i \in 0..12 :
                        in_range(mrange(months(i), leap_rule(century, year)), dayofyear)}))

ordinal_from_calendar(expanded, century, year, month, dayofmonth) ==
    IF ~MonthIndexOk(month)
    THEN Raise("IndexError")
    ELSE Ok(<<expanded, century, year,
              mrange(months(month), leap_rule(century, year))[1] + dayofmonth - 1>>)

jan1table == [d \in 1..7 |-> CASE d = 1 -> 0 [] d = 2 -> 0 - 1 [] d = 3 -> 0 - 2
                               [] d = 4 -> 0 - 3 [] d = 5 -> 3 [] d = 6 -> 2 [] d = 7 -> 1]

\* jan1dow, from yofc and cby
jan1dow(yofc, cby) == 1 + (((((cby \div 100) % 4) * 5) + (yofc + yofc \div 4)) % 7)

\* The adjustment, from yby
adjustment_of(yby) == jan1table[jan1dow(yby % 100, yby - (yby % 100))]

adjustment_to_jan_1_day_of_year(expanded, century, year) ==
    adjustment_of(expanded * 10000 + century * 100 + year - 1)

\* The return of weekdate_from_ordinal
weekdate_tuple(weekyear, week, dow) ==
    <<weekyear \div 100, (weekyear % 100) \div 10, weekyear % 10, week, dow>>

\* The days of the year before weekyear by the leap test that date.py writes
\* out in its other computations: a faulty variant.
previous_year_days_engine(prev) ==
    IF ~(prev % 4 = 0 /\ ((prev \div 100) % 100 # 0 \/ ((prev \div 100) % 100) % 4 = 0))
    THEN 365 ELSE 366

\* pyd, the days of the year before weekyear
previous_year_days(prev) ==
    IF ~(prev % 4 = 0 /\ (prev % 100 # 0 \/ prev % 400 = 0)) THEN 365 ELSE 366

\* weekdate_from_ordinal once dow and week are computed
weekdate_of_week(weekyear, dayofyear, dow, week) ==
    IF week = 0
    THEN weekdate_tuple(weekyear - 1,
                        (previous_year_days(weekyear - 1) + dayofyear - dow + 10) \div 7, dow)
    ELSE IF week = 53 /\ dow < 4
         THEN weekdate_tuple(weekyear, 1, dow)
         ELSE weekdate_tuple(weekyear, week, dow)

\* weekdate_from_ordinal once dow is computed
weekdate_of_dow(weekyear, dayofyear, dow) ==
    weekdate_of_week(weekyear, dayofyear, dow, (dayofyear - dow + 10) \div 7)

\* dow: (dayofyear - adjust) % 7, and 7 in place of 0
dow_of(dow) == IF dow = 0 THEN 7 ELSE dow

weekdate_from_ordinal(expanded, century, year, dayofyear) ==
    weekdate_of_dow(expanded * 10000 + century * 100 + year, dayofyear,
        dow_of((dayofyear - adjustment_to_jan_1_day_of_year(expanded, century, year)) % 7))

\* ordinal_from_weekdate once expanded, century and year are computed
ordinal_in_year(expanded, century, year, weekofyear, dayofweek) ==
    <<expanded, century, year,
      (weekofyear - 1) * 7 + dayofweek
          + adjustment_to_jan_1_day_of_year(expanded, century, year)>>

\* ordinal_from_weekdate once weekyear is computed
ordinal_of_weekyear(weekyear, weekofyear, dayofweek) ==
    ordinal_in_year(weekyear \div 10000, (weekyear % 10000) \div 100, weekyear % 100,
                    weekofyear, dayofweek)

ordinal_from_weekdate(weekcentury, weekdecade, weekyearofdec, weekofyear, dayofweek) ==
    ordinal_of_weekyear(weekcentury * 100 + weekdecade * 10 + weekyearofdec,
                        weekofyear, dayofweek)

\* ret = tuple(list(md) + [dayofyear] + list(cdywd)), unless computing md raised
all_fields(md, dayofyear, cdywd) ==
    IF md.err # "none" THEN md
    ELSE Ok(Fields(md.val[1], md.val[2], md.val[3], md.val[4], md.val[5], dayofyear,
                   cdywd[1], cdywd[2], cdywd[3], cdywd[4], cdywd[5]))

\* The branches of compute_all_fields that start from a day of year
from_dayofyear(expanded, century, year, dayofyear) ==
    all_fields(calendar_from_ordinal(expanded, century, year, dayofyear), dayofyear,
               weekdate_from_ordinal(expanded, century, year, dayofyear))

\* The branches that start from a month and a day of month, once dayofyear
\* is computed
from_month_day(expanded, century, year, month, dayofmonth, dayofyear) ==
    all_fields(Ok(<<expanded, century, year, month, dayofmonth>>), dayofyear,
               weekdate_from_ordinal(expanded, century, year, dayofyear))

\* The branches that start from a month and a day of month
from_month(expanded, century, year, month, dayofmonth) ==
    IF ~MonthIndexOk(month) THEN Raise("IndexError")
    ELSE from_month_day(expanded, century, year, month, dayofmonth,
             mrange(months(month), leap_rule(century, year))[1] + dayofmonth - 1)

\* The branches that start from a week and a day of week, once dayofyear is
\* computed
from_week_day(expanded, century, year, dayofyear, cdywd) ==
    all_fields(calendar_from_ordinal(expanded, century, year, dayofyear), dayofyear, cdywd)

\* The branches that start from a week and a day of week
from_week(expanded, century, year, weekcentury, weekdecade, weekyearofdec, weekofyear, dayofweek) ==
    from_week_day(expanded, century, year,
        (weekofyear - 1) * 7 + dayofweek
            + adjustment_to_jan_1_day_of_year(expanded, century, year),
        <<weekcentury, weekdecade, weekyearofdec, weekofyear, dayofweek>>)

\* a.name, or refdate.name when a.name is None
given(a, refdate, name) == IF a[name] = None THEN refdate[name] ELSE a[name]

\* compute_all_fields once expanded, century, year and the three week-year
\* fields have their defaults from refdate.  The two branches on month and
\* day of month are one here and so are the two on week and day of week:
\* each takes from refdate the field that is missing.
compute_branches(a, refdate, expanded, century, year, weekcentury, weekdecade, weekyearofdec) ==
    IF a.dayofyear # None
         /\ (a.dayofyear < 0
               \/ a.dayofyear > mrange(months(12), leap_rule(century, year))[2])
    THEN Raise("ValueError")
    ELSE IF a.dayofyear = None /\ (a.month # None \/ a.dayofmonth # None)
    THEN from_month(expanded, century, year,
                    given(a, refdate, "month"), given(a, refdate, "dayofmonth"))
    ELSE IF a.dayofyear = None /\ (a.weekofyear # None \/ a.dayofweek # None)
    THEN from_week(expanded, century, year, weekcentury, weekdecade, weekyearofdec,
                   given(a, refdate, "weekofyear"), given(a, refdate, "dayofweek"))
    ELSE from_dayofyear(expanded, century, year, given(a, refdate, "dayofyear"))

\* compute_all_fields(**a, refdate=refdate): a holds the eleven arguments
\* (None where not given), refdate the fields of the reference date.
compute_all_fields(a, refdate) ==
    compute_branches(a, refdate,
        given(a, refdate, "expanded"), given(a, refdate, "century"),
        given(a, refdate, "year"), given(a, refdate, "weekcentury"),
        given(a, refdate, "weekdecade"), given(a, refdate, "weekyearofdec"))

(***************************************************************************)
(* isodate objects                                                         *)
(***************************************************************************)

\* An isodate object: the fields as given to the constructor (__orig_*), the
\* resolved fields, the fields of the implied reference (NoFields when
\* iso_implied is None) and the ordinal.
IsoDate(orig, f, implied, ordinal) ==
    [orig |-> orig, f |-> f, implied |-> implied, ordinal |-> ordinal]

\* No object: the attributes of an object whose construction has not started.
NoDate == IsoDate(NoFields, NoFields, NoFields, None)

\* The outcome of a method that may have changed self before raising.
Outcome(e, obj) == [err |-> e, obj |-> obj]

\* The days before 1 January of the year, plus the day of year.
ordinal_of(f) ==
    LET yby == f.expanded * 10000 + f.century * 100 + f.year - 1
        dby == yby * 365 + yby \div 4 - yby \div 100 + yby \div 400
    IN dby + f.dayofyear

\* The validation loop of the setter: the first field whose given value
\* differs from the resolved one.
inconsistent(orig, f) ==
    \E i \in 1..Len(FieldNames) :
        orig[FieldNames[i]] # None /\ orig[FieldNames[i]] # f[FieldNames[i]]

\* The setter once the fields are resolved to f: the ordinal, then the
\* validation loop.
validate(self, f) ==
    IF f.expanded = None \/ f.century = None \/ f.year = None \/ f.dayofyear = None
    THEN Outcome("TypeError", [self EXCEPT !.f = f])
    ELSE Outcome(IF inconsistent(self.orig, f) THEN "ValueError" ELSE "none",
                 [self EXCEPT !.f = f, !.ordinal = ordinal_of(f)])

\* The setter once compute_all_fields has returned or raised.
resolve(self, computed) ==
    IF computed.err # "none" THEN Outcome(computed.err, self) ELSE validate(self, computed.val)

\* self.iso_implied = value, with value the fields of an isodate or NoFields
\* for None: the reference is stored first, the fields next.
set_iso_implied(self, value) ==
    resolve([self EXCEPT !.implied = value],
            IF value # NoFields THEN compute_all_fields(self.orig, value) ELSE Ok(self.orig))

AllGiven(a) == \A i \in 1..Len(FieldNames) : a[FieldNames[i]] # None

NoneGiven(a) == \A i \in 2..Len(FieldNames) : a[FieldNames[i]] = None

\* isodate(**a) once today() has returned the fields todayfields.
isodate_init(a, todayfields) ==
    IF NoneGiven(a) THEN Outcome("ValueError", NoDate)
    ELSE set_iso_implied(IsoDate(a, IF AllGiven(a) THEN a ELSE NoFields, NoFields, None),
                         IF AllGiven(a) THEN NoFields ELSE todayfields)

\* The arguments fromdatetime gives the constructor, from dt.year, dt.month,
\* dt.day, tt.tm_yday and dt.isocalendar().
datetime_fields(pdate, iso) ==
    Fields(0, pdate.year \div 100, pdate.year % 100, pdate.month, pdate.day, pdate.yday,
           iso[1] \div 100, (iso[1] % 100) \div 10, iso[1] % 10, iso[2], iso[3])

\* ret.iso_implied = None; return ret
without_implied(ret) == IF ret.err # "none" THEN ret ELSE set_iso_implied(ret.obj, NoFields)

\* isodate.fromdatetime(dt) for the platform date with ordinal o.
fromdatetime(o) ==
    without_implied(
        isodate_init(datetime_fields(PlatformFromOrdinal(o), PlatformIsoCalendar(o)),
                     NoFields))

\* isodate.fromordinal(ordinal)
fromordinal(ordinal) ==
    IF ~(0 < ordinal /\ ordinal <= MaxOrdinal)
    THEN Outcome("OverflowError", NoDate)
    ELSE fromdatetime(ordinal)

\* isodate.epoc(): 1 January 0001
epoc == Fields(0, 0, 1, 1, 1, 1, 0, 0, 1, 1, 1)

(***************************************************************************)
(* isodate: masks, templates and patterns                                  *)
(***************************************************************************)

\* Representation masks, bit by bit: expanded, century, year or week decade,
\* year or week year of decade, month, day of month, day of year, week of
\* year, day of week, basic.
CALENDAR == 881
ORDINAL == 841
WEEK == 967

\* Precision pairs <<reduced mask, truncated mask>>.
CENTURY == <<769, 1023>>
DECADE == <<897, 199>>
YEAR == <<833, 127>>
MONTH == <<993, 49>>
DAYOFMONTH == <<1009, 17>>
DAYOFYEAR == <<969, 9>>
WEEKOFYEAR == <<965, 7>>
DAYOFWEEK == <<967, 3>>

\* Python's None in the place of a precision pair.
NonePair == <<>>

\* The value isoformat puts in place of reduced=None and truncated=None.
NoPrecision == <<1023, 1023>>

\* Pieces of a pattern or of a template: a literal character, a field of n
\* digits, the signed expanded field.
L(ch) == [kind |-> "lit", ch |-> ch, name |-> "", n |-> 1]
G(name, n) == [kind |-> "field", ch |-> "", name |-> name, n |-> n]
S(name) == [kind |-> "signed", ch |-> "", name |-> name, n |-> 2]

\* A table of basic calendar patterns that also registers CCYYMM under length
\* 6, where YYMMDD is: a faulty variant.
rep_plain_with_month ==
    8 :> <<<<G("century", 2), G("year", 2), G("month", 2), G("dayofmonth", 2)>>>> @@
    7 :> <<<<G("century", 2), G("year", 2), G("dayofyear", 3)>>>> @@
    6 :> <<<<G("year", 2), G("month", 2), G("dayofmonth", 2)>>,
           <<G("century", 2), G("year", 2), G("month", 2)>>>> @@
    5 :> <<<<G("year", 2), G("dayofyear", 3)>>>> @@
    4 :> <<<<G("century", 2), G("year", 2)>>>> @@
    2 :> <<<<G("century", 2)>>>>

\* isodate.representations[(False, False)]: length -> patterns in declared order
rep_plain ==
    8 :> <<<<G("century", 2), G("year", 2), G("month", 2), G("dayofmonth", 2)>>>> @@
    7 :> <<<<G("century", 2), G("year", 2), G("dayofyear", 3)>>>> @@
    6 :> <<<<G("year", 2), G("month", 2), G("dayofmonth", 2)>>>> @@
    5 :> <<<<G("year", 2), G("dayofyear", 3)>>>> @@
    4 :> <<<<G("century", 2), G("year", 2)>>>> @@
    2 :> <<<<G("century", 2)>>>>

\* isodate.representations[(True, False)]: length -> patterns in declared order
rep_hyphen ==
    10 :> <<<<G("century", 2), G("year", 2), L("-"), G("month", 2), L("-"), G("dayofmonth", 2)>>>> @@
    8 :> <<<<G("century", 2), G("year", 2), L("-"), G("dayofyear", 3)>>,
           <<G("year", 2), L("-"), G("month", 2), L("-"), G("dayofmonth", 2)>>>> @@
    7 :> <<<<G("century", 2), G("year", 2), L("-"), G("month", 2)>>,
           <<L("-"), L("-"), G("month", 2), L("-"), G("dayofmonth", 2)>>>> @@
    6 :> <<<<L("-"), G("year", 2), L("-"), G("month", 2)>>,
           <<L("-"), L("-"), G("month", 2), G("dayofmonth", 2)>>,
           <<G("year", 2), L("-"), G("dayofyear", 3)>>>> @@
    5 :> <<<<L("-"), G("year", 2), G("month", 2)>>,
           <<L("-"), L("-"), L("-"), G("dayofmonth", 2)>>>> @@
    4 :> <<<<L("-"), L("-"), G("month", 2)>>,
           <<L("-"), G("dayofyear", 3)>>>> @@
    3 :> <<<<L("-"), G("year", 2)>>>>

\* isodate.representations[(False, True)]: length -> patterns in declared order
rep_week ==
    8 :> <<<<G("weekcentury", 2), G("weekdecade", 1), G("weekyearofdec", 1), L("W"), G("weekofyear", 2), G("dayofweek", 1)>>>> @@
    7 :> <<<<G("weekcentury", 2), G("weekdecade", 1), G("weekyearofdec", 1), L("W"), G("weekofyear", 2)>>>> @@
    6 :> <<<<G("weekdecade", 1), G("weekyearofdec", 1), L("W"), G("weekofyear", 2), G("dayofweek", 1)>>>> @@
    5 :> <<<<G("weekdecade", 1), G("weekyearofdec", 1), L("W"), G("weekofyear", 2)>>>>

\* isodate.representations[(True, True)]: length -> patterns in declared order
rep_hyphen_week ==
    10 :> <<<<G("weekcentury", 2), G("weekdecade", 1), G("weekyearofdec", 1), L("-"), L("W"), G("weekofyear", 2), L("-"), G("dayofweek", 1)>>>> @@
    8 :> <<<<G("weekcentury", 2), G("weekdecade", 1), G("weekyearofdec", 1), L("-"), L("W"), G("weekofyear", 2)>>,
           <<G("weekdecade", 1), G("weekyearofdec", 1), L("-"), L("W"), G("weekofyear", 2), L("-"), G("dayofweek", 1)>>,
           <<L("-"), G("weekyearofdec", 1), L("-"), L("W"), G("weekofyear", 2), L("-"), G("dayofweek", 1)>>>> @@
    6 :> <<<<G("weekdecade", 1), G("weekyearofdec", 1), L("-"), L("W"), G("weekofyear", 2)>>,
           <<L("-"), G("weekyearofdec", 1), L("W"), G("weekofyear", 2), G("dayofweek", 1)>>,
           <<L("-"), G("weekyearofdec", 1), L("-"), L("W"), G("weekofyear", 2)>>,
           <<L("-"), L("W"), G("weekofyear", 2), L("-"), G("dayofweek", 1)>>>> @@
    5 :> <<<<L("-"), G("weekyearofdec", 1), L("W"), G("weekofyear", 2)>>,
           <<L("-"), L("W"), G("weekofyear", 2), G("dayofweek", 1)>>>> @@
    4 :> <<<<L("-"), L("W"), G("weekofyear", 2)>>,
           <<L("-"), L("W"), L("-"), G("dayofweek", 1)>>>>

representations(hyphen, w) ==
    IF w THEN (IF hyphen THEN rep_hyphen_week ELSE rep_week)
    ELSE (IF hyphen THEN rep_hyphen ELSE rep_plain)

\* isodate.code2fmt: mask -> template
code2fmt ==
    369 :> <<G("century", 2), G("year", 2), G("month", 2), G("dayofmonth", 2)>> @@
    368 :> <<G("century", 2), G("year", 2), L("-"), G("month", 2), L("-"), G("dayofmonth", 2)>> @@
    353 :> <<G("century", 2), G("year", 2), L("-"), G("month", 2)>> @@
    321 :> <<G("century", 2), G("year", 2)>> @@
    257 :> <<G("century", 2)>> @@
    113 :> <<G("year", 2), G("month", 2), G("dayofmonth", 2)>> @@
    112 :> <<G("year", 2), L("-"), G("month", 2), L("-"), G("dayofmonth", 2)>> @@
    97 :> <<L("-"), G("year", 2), G("month", 2)>> @@
    96 :> <<L("-"), G("year", 2), L("-"), G("month", 2)>> @@
    65 :> <<L("-"), G("year", 2)>> @@
    49 :> <<L("-"), L("-"), G("month", 2), G("dayofmonth", 2)>> @@
    48 :> <<L("-"), L("-"), G("month", 2), L("-"), G("dayofmonth", 2)>> @@
    33 :> <<L("-"), L("-"), G("month", 2)>> @@
    32 :> <<L("-"), L("-"), G("month", 2)>> @@
    17 :> <<L("-"), L("-"), L("-"), G("dayofmonth", 2)>> @@
    881 :> <<S("expanded"), G("century", 2), G("year", 2), G("month", 2), G("dayofmonth", 2)>> @@
    880 :> <<S("expanded"), G("century", 2), G("year", 2), L("-"), G("month", 2), L("-"), G("dayofmonth", 2)>> @@
    865 :> <<S("expanded"), G("century", 2), G("year", 2), L("-"), G("month", 2)>> @@
    833 :> <<S("expanded"), G("century", 2), G("year", 2)>> @@
    769 :> <<S("expanded"), G("century", 2)>> @@
    329 :> <<G("century", 2), G("year", 2), G("dayofyear", 3)>> @@
    328 :> <<G("century", 2), G("year", 2), L("-"), G("dayofyear", 3)>> @@
    73 :> <<G("year", 2), G("dayofyear", 3)>> @@
    72 :> <<G("year", 2), L("-"), G("dayofyear", 3)>> @@
    9 :> <<L("-"), G("dayofyear", 3)>> @@
    841 :> <<S("expanded"), G("century", 2), G("year", 2), G("dayofyear", 3)>> @@
    840 :> <<S("expanded"), G("century", 2), G("year", 2), L("-"), G("dayofyear", 3)>> @@
    455 :> <<G("weekcentury", 2), G("weekdecade", 1), G("weekyearofdec", 1), L("W"), G("weekofyear", 2), G("dayofweek", 1)>> @@
    454 :> <<G("weekcentury", 2), G("weekdecade", 1), G("weekyearofdec", 1), L("-"), L("W"), G("weekofyear", 2), L("-"), G("dayofweek", 1)>> @@
    453 :> <<G("weekcentury", 2), G("weekdecade", 1), G("weekyearofdec", 1), L("W"), G("weekofyear", 2)>> @@
    452 :> <<G("weekcentury", 2), G("weekdecade", 1), G("weekyearofdec", 1), L("-"), L("W"), G("weekofyear", 2)>> @@
    199 :> <<G("weekdecade", 1), G("weekyearofdec", 1), L("W"), G("weekofyear", 2), G("dayofweek", 1)>> @@
    198 :> <<G("weekdecade", 1), G("weekyearofdec", 1), L("-"), L("W"), G("weekofyear", 2), L("-"), G("dayofweek", 1)>> @@
    197 :> <<G("weekdecade", 1), G("weekyearofdec", 1), L("W"), G("weekofyear", 2)>> @@
    196 :> <<G("weekdecade", 1), G("weekyearofdec", 1), L("-"), L("W"), G("weekofyear", 2)>> @@
    71 :> <<L("-"), G("weekyearofdec", 1), L("W"), G("weekofyear", 2), G("dayofweek", 1)>> @@
    70 :> <<L("-"), G("weekyearofdec", 1), L("-"), L("W"), G("weekofyear", 2), L("-"), G("dayofweek", 1)>> @@
    69 :> <<L("-"), G("weekyearofdec", 1), L("W"), G("weekofyear", 2)>> @@
    68 :> <<L("-"), G("weekyearofdec", 1), L("-"), L("W"), G("weekofyear", 2)>> @@
    7 :> <<L("-"), L("W"), G("weekofyear", 2), G("dayofweek", 1)>> @@
    6 :> <<L("-"), L("W"), G("weekofyear", 2), L("-"), G("dayofweek", 1)>> @@
    5 :> <<L("-"), L("W"), G("weekofyear", 2)>> @@
    3 :> <<L("-"), L("W"), L("-"), G("dayofweek", 1)>> @@
    967 :> <<S("expanded"), G("weekcentury", 2), G("weekdecade", 1), G("weekyearofdec", 1), L("W"), G("weekofyear", 2), G("dayofweek", 1)>> @@
    966 :> <<S("expanded"), G("weekcentury", 2), G("weekdecade", 1), G("weekyearofdec", 1), L("-"), L("W"), G("weekofyear", 2), L("-"), G("dayofweek", 1)>> @@
    965 :> <<S("expanded"), G("weekcentury", 2), G("weekdecade", 1), G("weekyearofdec", 1), L("W"), G("weekofyear", 2)>> @@
    964 :> <<S("expanded"), G("weekcentury", 2), G("weekdecade", 1), G("weekyearofdec", 1), L("-"), L("W"), G("weekofyear", 2)>>

RECURSIVE re_match(_, _, _, _, _)
\* rep_re.match(value): the pattern must match a prefix of value; groups
\* collects the named groups as integers.
re_match(pattern, i, value, pos, groups) ==
    IF i > Len(pattern) THEN [matched |-> TRUE, groups |-> groups]
    ELSE LET t == pattern[i]
         IN IF t.kind = "lit"
            THEN IF pos <= Len(value) /\ value[pos] = t.ch
                 THEN re_match(pattern, i + 1, value, pos + 1, groups)
                 ELSE [matched |-> FALSE, groups |-> groups]
            ELSE IF pos + t.n - 1 <= Len(value) /\ AllDigits(SubSeq(value, pos, pos + t.n - 1))
                 THEN re_match(pattern, i + 1, value, pos + t.n,
                               [groups EXCEPT ![t.name] = StrInt(SubSeq(value, pos, pos + t.n - 1))])
                 ELSE [matched |-> FALSE, groups |-> groups]

\* Python's int(s) for a string with an optional sign.
int_ok(s) ==
    IF Len(s) = 0 THEN FALSE
    ELSE IF s[1] \in {"+", "-"} THEN Len(s) > 1 /\ AllDigits(Tail(s))
    ELSE AllDigits(s)

int_of(s) ==
    IF s[1] = "-" THEN 0 - StrInt(Tail(s))
    ELSE IF s[1] = "+" THEN StrInt(Tail(s))
    ELSE StrInt(s)

\* One step of the loop: the match if there is one, else the next pattern.
match_or(mo, rest) == IF mo.matched THEN mo ELSE rest

RECURSIVE first_match(_, _, _)
\* The for loop of parse_iso over the patterns of one length.
first_match(patterns, k, value) ==
    IF k > Len(patterns) THEN [matched |-> FALSE, groups |-> NoFields]
    ELSE match_or(re_match(patterns[k], 1, value, 1, NoFields),
                  first_match(patterns, k + 1, value))

\* parse_iso once a pattern has matched or the loop has ended without one.
parse_matched(mo, expanded) ==
    IF ~mo.matched THEN Raise("ValueError")
    ELSE Ok([mo.groups EXCEPT !.expanded = expanded])

\* A parse_iso that takes the patterns of the longest length value has room
\* for and lets characters follow the match: a faulty variant.
parse_with_prefix(table, value, expanded) ==
    IF \A n \in DOMAIN table : n > Len(value) THEN Raise("ValueError")
    ELSE parse_matched(
             first_match(table[CHOOSE n \in DOMAIN table :
                                   /\ n <= Len(value)
                                   /\ \A m \in DOMAIN table : m <= Len(value) => m <= n],
                         1, value),
             expanded)

\* parse_iso once the patterns of the representation type are chosen.
parse_with(table, value, expanded) ==
    IF Len(value) \notin DOMAIN table THEN Raise("ValueError")
    ELSE parse_matched(first_match(table[Len(value)], 1, value), expanded)

\* parse_iso once the expansion digits are taken off value.
parse_value(value, expanded) ==
    parse_with(representations(Contains(value, "-"), Contains(value, "W")), value, expanded)

\* expanded = int(value[:width]); value = value[width:]
parse_expanded(head, value) ==
    IF ~int_ok(head) THEN Raise("ValueError") ELSE parse_value(value, int_of(head))

\* The arguments parse_iso passes to the constructor, before any object is
\* built: value_org is the string, expand_digits is None or a digit count.
parse_iso_args(value_org, expand_digits) ==
    IF expand_digits # None /\ expand_digits # 0
    THEN parse_expanded(SubSeq(value_org, 1, Min({expand_digits + 1, Len(value_org)})),
                        SubSeq(value_org, expand_digits + 2, Len(value_org)))
    ELSE parse_value(value_org, None)

\* parse_iso once the arguments of the constructor are known.
parse_construct(args, todayfields) ==
    IF args.err # "none" THEN Outcome(args.err, NoDate)
    ELSE isodate_init(args.val, todayfields)

\* isodate.parse_iso(value, expand_digits) once today() has returned todayfields.
parse_iso(value, expand_digits, todayfields) ==
    parse_construct(parse_iso_args(value, expand_digits), todayfields)

\* One replacement field of a template, formatted.
render_field(t, f) ==
    IF t.kind = "lit" THEN <<t.ch>>
    ELSE IF t.kind = "signed" THEN FmtSigned(f[t.name])
    ELSE FmtD(f[t.name], t.n)

RECURSIVE render(_, _, _)
\* fmt.format(self) from piece i on.
render(fmt, i, f) ==
    IF i > Len(fmt) THEN <<>>
    ELSE render_field(fmt[i], f) \o render(fmt, i + 1, f)

\* reduced and truncated, with the value isoformat puts in place of None
precision(p) == IF p = NonePair THEN NoPrecision ELSE p

\* if not basic: code = code & 0b1111111110
clear_basic(basic, code) == IF ~basic THEN BitAnd(code, 1022) ELSE code

\* if not expanded: code = code & 0b0111111111
clear_expanded(expanded, code) == IF ~expanded THEN BitAnd(code, 511) ELSE code

\* if not basic and code not in self.code2fmt: code = code | 0b0000000001
extended_key(keys, basic, code) ==
    IF ~basic /\ code \notin keys THEN BitOr(code, 1) ELSE code

\* The key isoformat looks up in code2fmt.
isoformat_code(representation, basic, reduced, truncated, expanded) ==
    extended_key(DOMAIN code2fmt, basic,
        clear_expanded(expanded,
            clear_basic(basic,
                BitAnd(BitAnd(representation, precision(reduced)[1]),
                       precision(truncated)[2]))))

\* fmt.format(self): a field that is None cannot be formatted as an integer.
format_fields(fmt, f) ==
    IF \E i \in 1..Len(fmt) : fmt[i].kind # "lit" /\ f[fmt[i].name] = None
    THEN Raise("TypeError")
    ELSE Ok(render(fmt, 1, f))

\* isoformat once code is computed.
format_code(table, code, self) ==
    IF code \notin DOMAIN table THEN Raise("ValueError")
    ELSE format_fields(table[code], self.f)

\* self.isoformat(representation, basic, reduced, truncated, expanded)
isoformat(self, representation, basic, reduced, truncated, expanded) ==
    format_code(code2fmt,
                isoformat_code(representation, basic, reduced, truncated, expanded), self)

\* if arg: field = arg
replaced(arg, field) == IF arg # None /\ arg # 0 THEN arg ELSE field

\* return isodate(*fields)
replace_fields(fields) ==
    IF fields.err # "none" THEN Outcome(fields.err, NoDate)
    ELSE isodate_init(fields.val, NoFields)

\* self.replace(year, month, day): None for an argument that is not given.
replace(self, year, month, day) ==
    replace_fields(
        compute_all_fields(
            Fields(self.f.expanded,
                   IF year # None /\ year # 0 THEN year \div 100 ELSE self.f.century,
                   IF year # None /\ year # 0 THEN year % 100 ELSE self.f.year,
                   replaced(month, self.f.month), replaced(day, self.f.dayofmonth),
                   None, None, None, None, None, None),
            epoc))

\* self + timedelta(days=days)
date_add(self, days) == fromordinal(self.ordinal + days)

\* A subtraction that moves forward in time instead of back: a faulty variant
\* of __sub__.
date_sub_forward(self, days) == date_add(self, days)

\* self - timedelta(days=days)
date_sub(self, days) == date_add(self, 0 - days)

\* self.__cmp(other), the difference that all six comparisons test
date_cmp(self, other) == self.ordinal - other.ordinal

(***************************************************************************)
(* isotime                                                                 *)
(***************************************************************************)

\* The fields of an isotime; tzinfo is None or the UTC offset in minutes of
\* a datetime.timezone.
TimeFields(h, m, s, us, tz) ==
    [hour |-> h, minute |-> m, second |-> s, microsecond |-> us, tzinfo |-> tz]

NoTime == TimeFields(None, None, None, None, None)

\* An isotime object: the validated arguments (__orig_*) and the resolved fields.
IsoTime(orig, f) == [orig |-> orig, f |-> f]

\* self.iso_implied = value for an isotime; value holds hour, minute, second
\* and tzinfo of the reference.
time_set_iso_implied(orig, value) ==
    IsoTime(orig,
            TimeFields(IF orig.hour # None THEN orig.hour ELSE value.hour,
                       IF orig.minute # None THEN orig.minute ELSE value.minute,
                       IF orig.second # None THEN orig.second ELSE value.second,
                       IF orig.microsecond # None THEN orig.microsecond ELSE 0,
                       IF orig.tzinfo # None THEN orig.tzinfo ELSE value.tzinfo))

\* isotime(hour, minute, second, microsecond, tzinfo) when
\* datetime.datetime.now() returns the fields now.
isotime_init(hour, minute, second, microsecond, tzinfo, now) ==
    IF hour = None /\ minute = None /\ second = None
    THEN Outcome("ValueError", IsoTime(NoTime, NoTime))
    ELSE IF hour # None /\ ~(0 <= hour /\ hour <= 24)
    THEN Outcome("ValueError", IsoTime(NoTime, NoTime))
    ELSE IF minute # None /\ ~(0 <= minute /\ minute <= 59)
    THEN Outcome("ValueError", IsoTime(NoTime, NoTime))
    ELSE IF second # None /\ ~(0 <= second /\ second < 60)
    THEN (IF second = 60 /\ (hour # 23 /\ minute # 59)
          THEN Outcome("ValueError", IsoTime(NoTime, NoTime))
          ELSE Outcome("ValueError", IsoTime(NoTime, NoTime)))
    ELSE IF microsecond # None /\ ~(0 <= microsecond /\ microsecond < 1000000)
    THEN Outcome("ValueError", IsoTime(NoTime, NoTime))
    ELSE Outcome("none",
                 time_set_iso_implied(TimeFields(hour, minute, second, microsecond, tzinfo), now))

RECURSIVE Pow10(_)
Pow10(k) == IF k <= 0 THEN 1 ELSE 10 * Pow10(k - 1)

\* The part of a decimal fraction num / 10^len below one unit, in
\* microseconds of that unit.
micro_of(num, len) ==
    IF len <= 6 THEN num * Pow10(6 - len) ELSE num \div Pow10(len - 6)

\* One position of the scan of a time string.
Scan(ok, pos, val) == [ok |-> ok, pos |-> pos, val |-> val]

\* \d{2} at pos
two_digits(value, pos) ==
    IF pos + 1 <= Len(value) /\ AllDigits(SubSeq(value, pos, pos + 1))
    THEN Scan(TRUE, pos + 2, StrInt(SubSeq(value, pos, pos + 1)))
    ELSE Scan(FALSE, pos, None)

\* :?\d{2} at pos
colon_two_digits(value, pos) ==
    IF pos <= Len(value) /\ value[pos] = ":"
    THEN (IF two_digits(value, pos + 1).ok THEN two_digits(value, pos + 1)
          ELSE Scan(FALSE, pos, None))
    ELSE two_digits(value, pos)

RECURSIVE digit_run(_, _)
\* The end of \d* at pos: the first position that holds no digit.
digit_run(value, pos) ==
    IF pos <= Len(value) /\ value[pos] \in DigitChars THEN digit_run(value, pos + 1) ELSE pos

\* ([,.](?P<fraction>\d+))? at pos: val is <<digits as an integer, digit count>>.
fraction_at(value, pos) ==
    IF pos <= Len(value) /\ value[pos] \in {",", "."} /\ digit_run(value, pos + 1) > pos + 1
    THEN Scan(TRUE, digit_run(value, pos + 1),
              <<SubSeq(value, pos + 1, digit_run(value, pos + 1) - 1)>>)
    ELSE Scan(FALSE, pos, <<>>)

\* The groups of a match: hour, minute and second as integers or None (and
\* hour or minute written "-" as None), the fraction digits, and the
\* timezone groups.
TimeGroups(hour, minute, second, fraction, utc, tzsign, tzhour, tzmin) ==
    [hour |-> hour, minute |-> minute, second |-> second, fraction |-> fraction,
     utc |-> utc, tzsign |-> tzsign, tzhour |-> tzhour, tzmin |-> tzmin]

NoMatch == [matched |-> FALSE,
            groups |-> TimeGroups(None, None, None, <<>>, FALSE, "", None, None)]

\* The end of a pattern: $ must follow at pos.
match_end(value, pos, groups) ==
    IF pos = Len(value) + 1 THEN [matched |-> TRUE, groups |-> groups] ELSE NoMatch

\* normal_re after (?P<tzhour>\d{2}): (?P<tzmin>\d{2})?
normal_tzmin(value, g, tzsign, tzhour, tzmin) ==
    match_end(value, tzmin.pos, [g EXCEPT !.tzsign = tzsign, !.tzhour = tzhour.val,
                                          !.tzmin = tzmin.val])

\* normal_re after (?P<tzsign>[+-]) at pos: the timezone group is optional,
\* so without two digits the pattern must end before the sign.
normal_tzhour(value, pos, g, tzhour) ==
    IF tzhour.ok
    THEN normal_tzmin(value, g, value[pos], tzhour, two_digits(value, tzhour.pos))
    ELSE match_end(value, pos, g)

\* normal_re after the fraction: ((?P<utc>Z)|((?P<tzsign>[+-])...))?
normal_tz(value, pos, g) ==
    IF pos <= Len(value) /\ value[pos] = "Z"
    THEN match_end(value, pos + 1, [g EXCEPT !.utc = TRUE])
    ELSE IF pos <= Len(value) /\ value[pos] \in {"+", "-"}
    THEN normal_tzhour(value, pos, g, two_digits(value, pos + 1))
    ELSE match_end(value, pos, g)

\* normal_re after the seconds: ([,.](?P<fraction>\d+))?
normal_fraction(value, hour, minute, second, fraction) ==
    normal_tz(value, fraction.pos,
              TimeGroups(hour.val, minute.val, second.val, fraction.val, FALSE, "",
                         None, None))

\* normal_re after the minutes: (:?(?P<second>\d{2}))?
normal_second(value, hour, minute, second) ==
    normal_fraction(value, hour, minute, second, fraction_at(value, second.pos))

\* normal_re after the hour: (:?(?P<minute>\d{2})...)?
normal_minute(value, hour, minute) ==
    normal_second(value, hour, minute,
                  IF minute.ok THEN colon_two_digits(value, minute.pos)
                  ELSE Scan(FALSE, minute.pos, None))

\* normal_re after ^T?: (?P<hour>\d{2})
normal_hour(value, hour) ==
    IF ~hour.ok THEN NoMatch
    ELSE normal_minute(value, hour, colon_two_digits(value, hour.pos))

\* ^T?: the position after an optional time designator
after_designator(value) == IF Len(value) >= 1 /\ value[1] = "T" THEN 2 ELSE 1

\* isotime.normal_re.match(value)
normal_re(value) == normal_hour(value, two_digits(value, after_designator(value)))

\* truncated_re after the seconds: ([,.](?P<fraction>\d+))? and the empty
\* timezone groups
truncated_fraction(value, minute, second, fraction) ==
    match_end(value, fraction.pos,
              TimeGroups(None, minute.val, second.val, fraction.val, FALSE, "", None, None))

\* truncated_re after the minutes: (:?(?P<second>\d{2}))?
truncated_second(value, minute, second) ==
    truncated_fraction(value, minute, second, fraction_at(value, second.pos))

\* truncated_re after (?P<hour>-): ((?P<minute>(-|\d{2})))
truncated_minute(value, minute) ==
    IF ~minute.ok THEN NoMatch
    ELSE truncated_second(value, minute, colon_two_digits(value, minute.pos))

\* truncated_re after ^T?: (?P<hour>-)
truncated_hour(value, pos) ==
    IF ~(pos <= Len(value) /\ value[pos] = "-") THEN NoMatch
    ELSE truncated_minute(value,
             IF pos + 1 <= Len(value) /\ value[pos + 1] = "-"
             THEN Scan(TRUE, pos + 2, None)
             ELSE two_digits(value, pos + 1))

\* isotime.truncated_re.match(value)
truncated_re(value) == truncated_hour(value, after_designator(value))

\* datetime.timezone(timedelta(hours=offh, minutes=offm)): the offset in
\* minutes, which must lie strictly within one day.
timezone_of(offh, offm) ==
    IF Abs(offh * 60 + offm) >= 1440 THEN Raise("ValueError") ELSE Ok(offh * 60 + offm)

\* tzinfo, from the timezone groups
time_tzinfo(g) ==
    IF g.utc THEN Ok(0)
    ELSE IF g.tzsign # ""
    THEN timezone_of(IF g.tzsign = "-" THEN 0 - g.tzhour ELSE g.tzhour,
                     IF g.tzmin # None THEN g.tzmin ELSE 0)
    ELSE Ok(None)

\* return isotime(hour, minute, second, microsecond, tzinfo)
time_build(hour, minute, second, microsecond, tz, now) ==
    IF tz.err # "none" THEN Outcome(tz.err, IsoTime(NoTime, NoTime))
    ELSE isotime_init(hour, minute, second, microsecond, tz.val, now)

\* parse_iso with a fraction of num / unit, unit = 10^len: it is a fraction
\* of the second, else of the minute, else of the hour.
time_with_fraction(g, num, len, unit, now) ==
    IF g.second # None
    THEN time_build(g.hour, g.minute, g.second, micro_of(num, len), time_tzinfo(g), now)
    ELSE IF g.minute # None
    THEN time_build(g.hour, g.minute, (num * 60) \div unit,
                    micro_of((num * 60) % unit, len), time_tzinfo(g), now)
    ELSE time_build(g.hour, (num * 60) \div unit, (((num * 60) % unit) * 60) \div unit,
                    micro_of((((num * 60) % unit) * 60) % unit, len), time_tzinfo(g), now)

\* parse_iso once the groups of the match are known
time_from_groups(g, now) ==
    IF g.fraction = <<>>
    THEN time_build(g.hour, g.minute, g.second, None, time_tzinfo(g), now)
    ELSE time_with_fraction(g, StrInt(g.fraction[1]), Len(g.fraction[1]),
                            Pow10(Len(g.fraction[1])), now)

\* parse_iso once the pattern is matched
time_matched(mo, now) ==
    IF ~mo.matched THEN Outcome("ValueError", IsoTime(NoTime, NoTime))
    ELSE time_from_groups(mo.groups, now)

\* isotime.parse_iso(value) when datetime.datetime.now() returns now.  The
\* decimal fraction is distributed exactly; the code does it in binary
\* floating point, which can come out one microsecond lower.
time_parse_iso(value, now) ==
    time_matched(IF ~Contains(value, "-") THEN normal_re(value) ELSE truncated_re(value), now)

\* Time precision pairs <<reduced mask, truncated mask>>; the mask bits are
\* hour, minute, second, fraction, basic.
HOUR == <<19, 31>>
MINUTE == <<27, 15>>
SECOND == <<31, 7>>

\* The value isotime.isoformat puts in place of reduced=None and truncated=None.
NoTimePrecision == <<29, 29>>

\* The fraction piece of a time template: at most n characters of it.
Fr(n) == [kind |-> "fraction", ch |-> "", name |-> "", n |-> n]

\* isotime.code2fmt: mask -> template
time_code2fmt ==
    29 :> <<G("hour", 2), G("minute", 2), G("second", 2), Fr(0)>> @@
    28 :> <<G("hour", 2), L(":"), G("minute", 2), L(":"), G("second", 2), Fr(0)>> @@
    25 :> <<G("hour", 2), G("minute", 2), Fr(0)>> @@
    24 :> <<G("hour", 2), L(":"), G("minute", 2), Fr(0)>> @@
    17 :> <<G("hour", 2), Fr(0)>> @@
    31 :> <<G("hour", 2), G("minute", 2), G("second", 2), Fr(7)>> @@
    30 :> <<G("hour", 2), L(":"), G("minute", 2), L(":"), G("second", 2), Fr(7)>> @@
    27 :> <<G("hour", 2), G("minute", 2), Fr(8)>> @@
    26 :> <<G("hour", 2), L(":"), G("minute", 2), Fr(9)>> @@
    19 :> <<G("hour", 2), Fr(11)>> @@
    13 :> <<L("-"), G("minute", 2), G("second", 2), Fr(0)>> @@
    12 :> <<L("-"), G("minute", 2), L(":"), G("second", 2), Fr(0)>> @@
    9 :> <<L("-"), G("minute", 2), Fr(0)>> @@
    5 :> <<L("-"), L("-"), G("second", 2), Fr(0)>> @@
    15 :> <<L("-"), G("minute", 2), G("second", 2), Fr(7)>> @@
    14 :> <<L("-"), G("minute", 2), L(":"), G("second", 2), Fr(7)>> @@
    11 :> <<L("-"), G("minute", 2), Fr(9)>> @@
    7 :> <<L("-"), L("-"), G("second", 2), Fr(7)>>

\* n / d rounded to the nearest integer above an integer base, ties to the
\* even total, as the six decimals of "{0:f}" are.
round_div(base, n, d) ==
    LET fl == base + n \div d
        rem == n % d
    IN IF 2 * rem > d THEN fl + 1
       ELSE IF 2 * rem < d THEN fl
       ELSE IF fl % 2 = 0 THEN fl ELSE fl + 1

\* "{0:f}".format(fraction)[2:] for the branch of isoformat that reduced[0]
\* selects: the six decimals of the part below the last unit shown.
fraction_digits(f, red) ==
    LET micro == f.second * 1000000 + f.microsecond
        a == f.minute * 50000
    IN IF BitAnd(red[1], 4) # 0 THEN FmtD(f.microsecond, 6)
       ELSE IF BitAnd(red[1], 8) # 0 THEN FmtD(round_div(0, micro, 60) % 1000000, 6)
       ELSE IF BitAnd(red[1], 16) # 0
       THEN FmtD(round_div(a \div 3, 1200 * (a % 3) + micro, 3600) % 1000000, 6)
       ELSE <<>>

RECURSIVE time_render(_, _, _, _)
\* fmt.format(self, fraction) from piece i on.
time_render(fmt, i, f, fraction) ==
    IF i > Len(fmt) THEN <<>>
    ELSE LET t == fmt[i]
         IN (IF t.kind = "lit" THEN <<t.ch>>
             ELSE IF t.kind = "fraction"
             THEN SubSeq(fraction, 1, IF t.n < Len(fraction) THEN t.n ELSE Len(fraction))
             ELSE FmtD(f[t.name], t.n)) \o time_render(fmt, i + 1, f, fraction)

RECURSIVE strip_zeros(_)
\* while ret.endswith('0'): ret = ret[:-1]
strip_zeros(ret) ==
    IF Len(ret) > 0 /\ ret[Len(ret)] = "0" THEN strip_zeros(SubSeq(ret, 1, Len(ret) - 1)) ELSE ret

\* "{0:+03d}".format(n)
FmtPlus03d(n) ==
    IF n >= 0 THEN <<"+">> \o FmtD(n, 2) ELSE <<"-">> \o FmtD(0 - n, 2)

\* The timezone designator isoformat appends for a tzinfo of offset minutes.
tzone(offset, basic) ==
    LET minutes == offset % 1440
        h == minutes \div 60
        tzminute == minutes % 60
        tzhour == IF h > 12 THEN h - 24 ELSE h
    IN IF tzhour = 0 /\ tzminute = 0 THEN <<"Z">>
       ELSE IF basic THEN FmtPlus03d(tzhour) \o FmtD(tzminute, 2)
       ELSE FmtPlus03d(tzhour) \o <<":">> \o FmtD(tzminute, 2)

\* reduced and truncated, with the value isoformat puts in place of None
time_precision(p) == IF p = NonePair THEN NoTimePrecision ELSE p

\* fraction: the mark and the decimals, or the empty string
fraction_string(f, red, fraction, preferred_mark) ==
    IF fraction
    THEN (IF preferred_mark THEN <<",">> ELSE <<".">>) \o fraction_digits(f, red)
    ELSE <<>>

\* if not basic: code = code & 0b11110
time_clear_basic(basic, code) == IF ~basic THEN BitAnd(code, 30) ELSE code

\* if fraction and self.microsecond > 0: code = code | 0b00010
time_set_fraction(shown, code) == IF shown THEN BitOr(code, 2) ELSE code

\* The key isoformat looks up in code2fmt.
time_isoformat_code(basic, red, tru, shown) ==
    extended_key(DOMAIN time_code2fmt, basic,
        time_set_fraction(shown, time_clear_basic(basic, BitAnd(red[1], tru[2]))))

\* while ret.endswith('0'), when the fraction is shown
time_stripped(shown, ret) == IF shown THEN strip_zeros(ret) ELSE ret

\* tzone, or nothing to append
time_zone(self, basic, timezone) ==
    IF timezone /\ self.f.tzinfo # None THEN tzone(self.f.tzinfo, basic) ELSE <<>>

\* isoformat once code is computed.
time_format_code(table, code, self, frac, shown, zone) ==
    IF code \notin DOMAIN table THEN Raise("ValueError")
    ELSE Ok(time_stripped(shown, time_render(table[code], 1, self.f, frac)) \o zone)

\* isoformat once it is known whether the fraction is shown.
time_format_shown(self, basic, red, tru, frac, shown, zone) ==
    time_format_code(time_code2fmt, time_isoformat_code(basic, red, tru, shown), self, frac,
                     shown, zone)

\* isoformat once fraction is computed.
time_format_fraction(self, basic, red, tru, frac, zone) ==
    time_format_shown(self, basic, red, tru, frac, frac # <<>> /\ self.f.microsecond > 0,
                      zone)

\* self.isoformat(basic, reduced, truncated, fraction, preferred_mark, timezone)
\* for an isotime.
time_isoformat(self, basic, reduced, truncated, fraction, preferred_mark, timezone) ==
    time_format_fraction(self, basic, time_precision(reduced), time_precision(truncated),
        fraction_string(self.f, time_precision(reduced), fraction, preferred_mark),
        time_zone(self, basic, timezone))

\* float(self), in microseconds
time_float(self) ==
    (self.f.hour * 3600 + self.f.minute * 60 + self.f.second) * 1000000 + self.f.microsecond

\* self - other for two isotime objects: the class defines neither __sub__
\* nor __rsub__.
time_sub(self, other) == Raise("TypeError")

\* isotime.__cmp(other): lhs = float(self) and rhs = float(other) are computed
\* and left unused; the method returns self - other.
time_cmp(self, other) == time_sub(self, other)

\* The test a comparison operator makes on the value of __cmp.
compare_test(oper, c) ==
    IF oper = "eq" THEN c = 0
    ELSE IF oper = "ne" THEN c # 0
    ELSE IF oper = "lt" THEN c < 0
    ELSE IF oper = "le" THEN c <= 0
    ELSE IF oper = "gt" THEN c > 0
    ELSE c >= 0

\* The value a comparison returns once __cmp has returned or raised.
compare_result(oper, c) ==
    IF c.err # "none" THEN Raise(c.err)
    ELSE Ok(IF compare_test(oper, c.val) THEN <<"True">> ELSE <<"False">>)

\* isotime.__eq__, __ne__, __lt__, __le__, __gt__, __ge__ with an isotime
time_compare(oper, self, other) == compare_result(oper, time_cmp(self, other))

(***************************************************************************)
(* isodatetime                                                             *)
(***************************************************************************)

\* An isodatetime object: its isodate and its isotime.
IsoDateTime(date, time) == [date |-> date, time |-> time]

NoDateTime == IsoDateTime(NoDate, IsoTime(NoTime, NoTime))

\* Python's None where a string is expected.
NoneStr == <<"None">>

\* The isodatetime of an isodate and an isotime that were built, or the
\* exception of the first that was not.
datetime_of(date, time) ==
    IF date.err # "none" THEN Outcome(date.err, NoDateTime)
    ELSE IF time.err # "none" THEN Outcome(time.err, NoDateTime)
    ELSE Outcome("none", IsoDateTime(date.obj, time.obj))

\* isodatetime(**a, hour, minute, second, microsecond, tzinfo)
isodatetime_init(a, hour, minute, second, microsecond, tzinfo, todayfields, now) ==
    datetime_of(isodate_init(a, todayfields),
                isotime_init(hour, minute, second, microsecond, tzinfo, now))

\* isodatetime.combine(date, time) for an isodate and an isotime
combine(date, time, now) ==
    isodatetime_init(date.f, time.f.hour, time.f.minute, time.f.second,
                     time.f.microsecond, time.f.tzinfo, NoFields, now)

\* The positions of the time designator in value.
designators(value) == {i \in 1..Len(value) : value[i] = "T"}

\* return isodatetime.combine(do, to)
combine_parsed(do, to, now) ==
    IF do.err # "none" THEN Outcome(do.err, NoDateTime)
    ELSE IF to.err # "none" THEN Outcome(to.err, NoDateTime)
    ELSE combine(do.obj, to.obj, now)

\* parse_iso once value is split at its one designator.
datetime_parse_split(value, at, expand_digits, todayfields, now) ==
    combine_parsed(parse_iso(SubSeq(value, 1, at - 1), expand_digits, todayfields),
                   time_parse_iso(SubSeq(value, at + 1, Len(value)), now), now)

\* isodatetime.parse_iso(value, expand_digits): dv, tv = value.split('T')
datetime_parse_iso(value, expand_digits, todayfields, now) ==
    IF Cardinality(designators(value)) # 1 THEN Outcome("ValueError", NoDateTime)
    ELSE datetime_parse_split(value, CHOOSE i \in designators(value) : TRUE,
                              expand_digits, todayfields, now)

\* self.isoformat(representation, basic, reduced, truncated, expanded) for an
\* isodatetime: the body is a docstring and pass.
datetime_isoformat(self, representation, basic, reduced, truncated, expanded) == NoneStr

(***************************************************************************)
(* The platform clock and the today() cache                                *)
(***************************************************************************)

\* The number of days around the first day of the clock that are drawn as
\* platform dates.
NearDays == 3

\* The largest day count added to or subtracted from a date.
MaxDelta == 2

SecondsPerDay == 24 * 3600

\* The days that pass while a truncated representation is kept.
MaxDays == 1

\* The clock advances in steps of TickSeconds, MaxTicks steps from reading 0,
\* while threads call today(), and at most MaxCalls calls are made.
TickSeconds == 6 * 3600

MaxTicks == 6

MaxCalls == 3

\* The proleptic Gregorian ordinal of the UTC day on which the clock reads 0.
BaseOrdinal == PlatformOrdinal(2024, 12, 31)

\* The clock readings (seconds) and the local UTC offsets (seconds) a run
\* starts with.
StartClocks == {12 * 3600 + 34 * 60 + 56, 20 * 3600}

UTCOffsets == {0, 9 * 3600}

\* The clock readings at which the package is imported and the local UTC
\* offsets when threads call today(): local evening, morning and afternoon,
\* west of, on and east of the prime meridian.
ImportClocks == {2 * 3600, 20 * 3600}

LocalOffsets == {0 - 6 * 3600, 0, 9 * 3600}

\* datetime.date.fromtimestamp(secs): the ordinal of the local date
local_ordinal(secs, offset) == BaseOrdinal + (secs + offset) \div SecondsPerDay

\* time.mktime((tt.tm_year, tt.tm_mon, tt.tm_mday+1, 0, 0, 0, 0, 0, 0)) with
\* tt = time.gmtime(secs): local midnight at the start of the day after the
\* UTC date of secs.
next_midnight(secs, offset) == (secs \div SecondsPerDay + 1) * SecondsPerDay - offset

\* isodate.fromtimestamp(secs).  A platform date always builds.
fromtimestamp(secs, offset) == fromdatetime(local_ordinal(secs, offset)).obj.f

\* isodate.today() at clock reading secs: the cache and the expiry it leaves,
\* and the fields of the isodate it returns.
today(secs, offset, cache, expire) ==
    IF expire < secs
    THEN [cache |-> fromtimestamp(secs, offset), expire |-> next_midnight(secs, offset)]
    ELSE [cache |-> cache, expire |-> expire]

\* datetime.datetime.now() at clock reading secs: a naive local time
datetime_now(secs, offset) ==
    LET s == (secs + offset) % SecondsPerDay
    IN TimeFields(s \div 3600, (s % 3600) \div 60, s % 60, 0, None)

(***************************************************************************)
(* State                                                                   *)
(***************************************************************************)

VARIABLES
    clock,          \* time.time(), in seconds since midnight UTC of the base day
    tzoffset,       \* the local UTC offset in seconds
    today_cache,    \* isodate.__today_cache, the fields of the cached isodate
    today_expire,   \* isodate.__today_expire
    op,             \* the last call and its arguments
    err,            \* the exception the last call raised, "none" if it returned
    d,              \* the isodate that was constructed
    r,              \* the isodate the last method of d returned
    out,            \* the string the last formatting call returned
    t,              \* the isotime that was constructed
    dt,             \* the isodatetime that was constructed
    thread,         \* the frame of isodate.today() in each thread that calls it
    refreshed       \* the calls of today() made, and the fills of the cache counted
                    \* within the local day of the last one

vars == <<clock, tzoffset, today_cache, today_expire, op, err, d, r, out, t, dt,
          thread, refreshed>>

\* The options of isodate.isoformat and of isotime.isoformat.
DateFmt(representation, basic, reduced, truncated, expanded) ==
    [representation |-> representation, basic |-> basic, reduced |-> reduced,
     truncated |-> truncated, expanded |-> expanded]

TimeFmt(basic, reduced, truncated, fraction, preferred_mark, timezone) ==
    [basic |-> basic, reduced |-> reduced, truncated |-> truncated,
     fraction |-> fraction, preferred_mark |-> preferred_mark, timezone |-> timezone]

DefaultDateFmt == DateFmt(CALENDAR, FALSE, NonePair, NonePair, FALSE)

DefaultTimeFmt == TimeFmt(FALSE, NonePair, NonePair, TRUE, FALSE, TRUE)

\* A call: its name, and its string, field, integer, time and option arguments.
Call(name, value, a, n, targ, fmt, tfmt) ==
    [name |-> name, value |-> value, a |-> a, n |-> n, targ |-> targ,
     fmt |-> fmt, tfmt |-> tfmt]

NoTimeObj == IsoTime(NoTime, NoTime)

(***************************************************************************)
(* Inputs                                                                  *)
(***************************************************************************)

\* Platform dates, as proleptic Gregorian ordinals: the ends of the platform
\* range, days around leap days, century years and ISO week-year changes,
\* and the days around the first day of the clock.
PlatformDates ==
    { PlatformOrdinal(1, 1, 1), PlatformOrdinal(1900, 3, 1), PlatformOrdinal(1900, 12, 31),
      PlatformOrdinal(1901, 1, 1), PlatformOrdinal(1966, 8, 29), PlatformOrdinal(2000, 2, 29),
      PlatformOrdinal(2021, 1, 3), PlatformOrdinal(2024, 2, 29), PlatformOrdinal(2025, 6, 15),
      PlatformOrdinal(9999, 12, 31) }
    \cup ((BaseOrdinal - NearDays)..(BaseOrdinal + NearDays))

\* The eleven fields the platform gives for the day with ordinal o.
PlatformFields(o) == datetime_fields(PlatformFromOrdinal(o), PlatformIsoCalendar(o))

\* Constructor arguments that name a day by one field group of its fields p.
CalendarGroup(p) ==
    Fields(None, p.century, p.year, p.month, p.dayofmonth, None, None, None, None, None, None)

OrdinalGroup(p) ==
    Fields(None, p.century, p.year, None, None, p.dayofyear, None, None, None, None, None)

WeekGroup(p) ==
    Fields(None, None, None, None, None, None,
           p.weekcentury, p.weekdecade, p.weekyearofdec, p.weekofyear, p.dayofweek)

CalendarArgs(o) == CalendarGroup(PlatformFields(o))

OrdinalArgs(o) == OrdinalGroup(PlatformFields(o))

WeekArgs(o) == WeekGroup(PlatformFields(o))

\* Other constructor arguments: truncated and reduced field sets, fields out
\* of range, field groups that disagree, fields that are not contiguous,
\* and eleven fields that disagree.
SpecialArgs ==
    { Fields(None, None, None, None, 31, None, None, None, None, None, None),
      Fields(None, None, None, None, 30, None, None, None, None, None, None),
      Fields(None, None, None, 2, None, None, None, None, None, None, None),
      Fields(None, None, None, 2, 30, None, None, None, None, None, None),
      Fields(None, None, None, None, None, 366, None, None, None, None, None),
      Fields(None, None, None, None, None, None, None, None, None, 53, None),
      Fields(None, None, None, None, None, None, None, None, None, None, 3),
      Fields(None, None, 66, None, None, None, None, None, None, None, None),
      Fields(None, 19, None, None, None, None, None, None, None, None, None),
      Fields(None, None, None, None, None, None, None, None, None, None, None),
      Fields(None, 19, 66, 0, 1, None, None, None, None, None, None),
      Fields(None, 19, 66, 13, 1, None, None, None, None, None, None),
      Fields(None, 19, 66, 1, 32, None, None, None, None, None, None),
      Fields(None, 19, 66, 1, 0, None, None, None, None, None, None),
      Fields(None, 19, 66, None, None, 0, None, None, None, None, None),
      Fields(None, 19, 66, None, None, 0 - 1, None, None, None, None, None),
      Fields(None, 19, 66, None, None, 366, None, None, None, None, None),
      Fields(None, 19, 64, None, None, 366, None, None, None, None, None),
      Fields(None, 19, 0, None, None, 366, None, None, None, None, None),
      Fields(None, 17, 1, None, None, 1, None, None, None, None, None),
      Fields(None, 20, 21, None, None, 1, None, None, None, None, None),
      Fields(None, 19, 64, None, None, 367, None, None, None, None, None),
      Fields(None, None, None, None, None, None, 20, 2, 4, 0, 1),
      Fields(None, None, None, None, None, None, 20, 2, 4, 54, 1),
      Fields(None, None, None, None, None, None, 20, 2, 4, 20, 8),
      Fields(None, None, None, None, None, None, 20, 2, 4, 20, 0),
      Fields(None, 19, 66, 8, 29, 241, None, None, None, 35, 1),
      Fields(None, 20, 66, 8, 29, 241, None, None, None, 35, 1),
      Fields(None, 19, 66, 9, 29, 241, None, None, None, 35, 1),
      Fields(None, 19, 66, 8, 29, 242, None, None, None, 35, 1),
      Fields(None, 19, 66, 8, 29, 241, None, None, None, 36, 1),
      Fields(None, None, 66, None, 29, None, None, None, None, None, None),
      Fields(0, 19, 66, 8, 29, 241, 19, 6, 6, 35, 1),
      Fields(0, 19, 66, 8, 29, 1, 19, 6, 6, 35, 1),
      Fields(1, 0, 0, 1, 1, 1, 99, 9, 9, 52, 6) }

ConstructArgs ==
    {CalendarArgs(o) : o \in PlatformDates} \cup {OrdinalArgs(o) : o \in PlatformDates}
    \cup {WeekArgs(o) : o \in PlatformDates} \cup SpecialArgs

\* The complete representation of fields p: CCYYMMDD, CCYYDDD or CCYYWwwD,
\* with hyphens in extended format.
CompleteOf(p, representation, basic) ==
    IF representation = CALENDAR
    THEN FmtD(p.century, 2) \o FmtD(p.year, 2) \o (IF basic THEN <<>> ELSE <<"-">>)
         \o FmtD(p.month, 2) \o (IF basic THEN <<>> ELSE <<"-">>) \o FmtD(p.dayofmonth, 2)
    ELSE IF representation = ORDINAL
    THEN FmtD(p.century, 2) \o FmtD(p.year, 2) \o (IF basic THEN <<>> ELSE <<"-">>)
         \o FmtD(p.dayofyear, 3)
    ELSE FmtD(p.weekcentury, 2) \o FmtD(p.weekdecade, 1) \o FmtD(p.weekyearofdec, 1)
         \o (IF basic THEN <<>> ELSE <<"-">>) \o <<"W">> \o FmtD(p.weekofyear, 2)
         \o (IF basic THEN <<>> ELSE <<"-">>) \o FmtD(p.dayofweek, 1)

\* The complete representation of the platform date with ordinal o.
CompleteString(o, representation, basic) ==
    CompleteOf(PlatformFields(o), representation, basic)

CompleteStrings ==
    { CompleteString(o, representation, basic) :
        o \in PlatformDates, representation \in {CALENDAR, ORDINAL, WEEK}, basic \in BOOLEAN }

\* Other strings given to isodate.parse_iso: reduced and truncated
\* representations, fields out of range, strings of no representation.
OtherStrings == {
    <<"1", "9", "6", "6", "0", "8", "2", "9">>, <<"1", "9", "6", "6", "-", "0", "8", "-", "2", "9">>, <<"1", "9", "6", "6", "2", "4", "1">>,
    <<"1", "9", "6", "6", "-", "2", "4", "1">>, <<"1", "9", "6", "6", "W", "3", "5", "1">>, <<"1", "9", "6", "6", "-", "W", "3", "5", "-", "1">>,
    <<"2", "0", "2", "4", "W", "5", "3", "1">>, <<"2", "0", "2", "5", "W", "0", "1", "1">>, <<"2", "0", "2", "5", "-", "W", "0", "1", "-", "3">>,
    <<"1", "9", "6", "6", "-", "0", "8">>, <<"1", "9", "6", "6">>, <<"1", "9">>,
    <<"6", "6", "0", "8", "2", "9">>, <<"6", "6", "-", "0", "8", "-", "2", "9">>, <<"-", "6", "6", "0", "8">>,
    <<"-", "6", "6", "-", "0", "8">>, <<"-", "6", "6">>, <<"-", "-", "0", "8", "2", "9">>,
    <<"-", "-", "0", "8", "-", "2", "9">>, <<"-", "-", "0", "8">>, <<"-", "-", "-", "2", "9">>,
    <<"-", "-", "-", "3", "1">>, <<"6", "6", "2", "4", "1">>, <<"6", "6", "-", "2", "4", "1">>,
    <<"-", "2", "4", "1">>, <<"-", "3", "6", "6">>, <<"6", "6", "W", "3", "5", "1">>,
    <<"-", "6", "W", "3", "5", "1">>, <<"-", "W", "3", "5", "1">>, <<"-", "W", "3", "5">>,
    <<"-", "W", "-", "1">>, <<"-", "W", "5", "3">>, <<"1", "9", "6", "6", "0", "1", "3", "2">>,
    <<"1", "9", "6", "6", "0", "0", "3", "1">>, <<"1", "9", "6", "6", "1", "3", "0", "1">>, <<"1", "9", "6", "6", "0", "0", "0">>,
    <<"1", "9", "6", "6", "3", "6", "6">>, <<"1", "9", "6", "6", "3", "6", "7">>, <<"2", "0", "2", "4", "3", "6", "6">>,
    <<"1", "9", "6", "6", "W", "5", "4", "1">>, <<"1", "9", "6", "6", "W", "3", "5", "8">>, <<"1", "9", "6", "6", "W", "0", "0", "1">>,
    <<"1", "9", "6", "6", "0", "8", "2", "9", "0">>, <<"1", "9", "6", "6", "/", "0", "8", "/", "2", "9">>, <<>>,
    <<"1", "9", "6", "6", "-", "8", "-", "2", "9">>, <<"W">>, <<"1", "9", "6", "6", "W", "3", "5", "X">> }

\* Strings given to isodate.parse_iso.
DateStrings == CompleteStrings \cup OtherStrings

\* Strings given to isodate.parse_iso with expand_digits=1.
ExpandedStrings == { <<"+", "0", "1", "9", "6", "6", "-", "0", "8", "-", "2", "9">>,
    <<"-", "0", "1", "9", "6", "6", "2", "4", "1">>,
    <<"1", "9", "6", "6", "0", "8", "2", "9">> }

\* Values assigned to iso_implied: None (NoFields), and the fields of the
\* isodate the setter builds from a platform date, in March and in February
\* of a year of 365 days and 52 weeks.
ImpliedValues ==
    { NoFields, PlatformFields(PlatformOrdinal(1967, 3, 13)),
      PlatformFields(PlatformOrdinal(1967, 2, 13)) }

\* Ordinals given to isodate.fromordinal, within and beyond the platform range.
Ordinals == {0 - 1, 0, 1, PlatformOrdinal(1966, 8, 29), MaxOrdinal, MaxOrdinal + 1}

\* Day counts added and subtracted.
Deltas == (0 - MaxDelta)..MaxDelta

\* Arguments of replace: None for an argument that is not given.
ReplaceArgs == { <<1967, 9, 3>>, <<None, None, None>>, <<None, 2, 30>>, <<1900, None, None>>,
                 <<None, None, 32>>, <<None, 13, None>>, <<2024, 12, 30>> }

\* Options of isodate.isoformat: <<reduced, truncated>> pairs.
Precisions == { <<NonePair, NonePair>>, <<MONTH, NonePair>>, <<WEEKOFYEAR, NonePair>>,
                <<NonePair, YEAR>>, <<NonePair, MONTH>>, <<NonePair, DAYOFMONTH>>,
                <<NonePair, DAYOFYEAR>>, <<NonePair, WEEKOFYEAR>>,
                <<YEAR, CENTURY>> }

DateFmts ==
    { DateFmt(rep, basic, p[1], p[2], expanded) :
        rep \in {CALENDAR, ORDINAL, WEEK}, basic \in BOOLEAN, p \in Precisions,
        expanded \in BOOLEAN }

\* Arguments of the isotime constructor.
TimeArgs ==
    { TimeFields(h, m, s, us, tz) :
        h \in {None, 0, 23, 24, 25}, m \in {None, 0, 59, 60}, s \in {None, 0, 59, 60, 61},
        us \in {None, 354700}, tz \in {None, 0, 0 - 360, 0 - 390} }

\* The comparison operators, and the complete times of day that an isotime
\* is compared with.
CompareOperators == {"eq", "ne", "lt", "le", "gt", "ge"}

CompareTimes == {TimeFields(23, 20, 50, 0, None), TimeFields(7, 13, 27, 0, None)}

\* Strings given to isotime.parse_iso: times of day, each with each timezone
\* suffix.
TimeBodies == {
    <<"1", "2", "3", "5", "3", "2">>, <<"1", "2", ":", "3", "5", ":", "3", "2">>, <<"1", "2", "3", "5">>,
    <<"1", "2">>, <<"2", "3", "2", "0", "5", "0", ".", "3", "5", "4", "7">>, <<"2", "3", ":", "2", "0", ",", "3", "5", "4", "7">>,
    <<"2", "3", ".", "5">>, <<"-", "2", "0", "5", "0">>, <<"-", "-", "5", "0">>,
    <<"2", "3", "5", "9", "6", "0">>, <<"2", "4", "5", "9", "5", "9">>, <<"1", "2", ":", "6", "0">>,
    <<"T", "0", "5", "3", "5">> }

TzSuffixes == {
    <<>>, <<"Z">>, <<"+", "0", "1">>, <<"+", "0", "1", "2", "7">>,
    <<"+", "0", "1", ":", "2", "7">>, <<"-", "0", "6">>, <<"-", "0", "6", "0", "0">>, <<"-", "0", "6", ":", "0", "0">>,
    <<"+", "2", "4", "0", "0">> }

TimeStrings == {b \o x : b \in TimeBodies, x \in TzSuffixes}

\* Options of isotime.isoformat.
TimeFmts ==
    { TimeFmt(basic, p[1], p[2], fraction, FALSE, timezone) :
        basic \in BOOLEAN, p \in {<<NonePair, NonePair>>, <<MINUTE, NonePair>>, <<NonePair, MINUTE>>},
        fraction \in BOOLEAN, timezone \in BOOLEAN }

\* Arguments of the isodatetime constructor: a date and a time.
DateTimeArgs ==
    { <<a, ta>> :
        a \in {CalendarArgs(PlatformOrdinal(1966, 8, 29)), OrdinalArgs(PlatformOrdinal(1966, 8, 29)),
               WeekArgs(PlatformOrdinal(1966, 8, 29)), CalendarArgs(BaseOrdinal),
               Fields(None, 19, 66, 13, 1, None, None, None, None, None, None)},
        ta \in {TimeFields(5, 35, 32, None, 0 - 360), TimeFields(12, 35, 32, None, 0),
                TimeFields(5, 35, 32, 354700, None), TimeFields(23, 59, 60, None, None)} }

\* Strings given to isodatetime.parse_iso.
DateTimeStrings ==
    { dv \o <<"T">> \o tv :
        dv \in {<<"1", "9", "6", "6", "0", "8", "2", "9">>, <<"1", "9", "6", "6", "-", "2", "4", "1">>, <<"1", "9", "6", "6", "W", "3", "5", "1">>, <<"1", "9", "6", "6", "-", "0", "8", "-", "2", "9">>},
        tv \in {<<"0", "5", "3", "5", "3", "2">>, <<"1", "2", ":", "3", "5", ":", "3", "2", "Z">>, <<"0", "5", "3", "5", "3", "2", "-", "0", "6", "0", "0">>, <<"0", "5", ":", "3", "5", ":", "3", "2", "+", "0", "1">>} }
    \cup {<<"1", "9", "6", "6", "0", "8", "2", "9">>, <<"1", "9", "6", "6", "T", "0", "8", "T", "2", "9">>}

\* Options of isodatetime.isoformat.
DateTimeFmts ==
    { DateFmt(rep, basic, NonePair, NonePair, FALSE) :
        rep \in {CALENDAR, ORDINAL, WEEK}, basic \in BOOLEAN }

(***************************************************************************)
(* The state machine                                                       *)
(***************************************************************************)

NoCall(name) == Call(name, <<>>, NoFields, None, NoTime, DefaultDateFmt, DefaultTimeFmt)

\* The frame of isodate.today() in one thread: the statement the thread is at,
\* its locals t and secs, and what its last call returned or raised, with the
\* clock reading when it returned.
IdleFrame ==
    [pc |-> "idle", t |-> None, secs |-> None, ret |-> NoFields, raised |-> FALSE,
     done |-> FALSE, at |-> None]

\* The state once the package is imported: the last statement of date.py
\* calls isodate.today(), which fills the cache.
Init ==
    /\ clock \in StartClocks
    /\ tzoffset \in UTCOffsets
    /\ today_cache = fromtimestamp(clock, tzoffset)
    /\ today_expire = next_midnight(clock, tzoffset)
    /\ op = NoCall("import")
    /\ err = "none"
    /\ d = NoDate
    /\ r = NoDate
    /\ out = <<>>
    /\ t = NoTimeObj
    /\ dt = NoDateTime
    /\ thread = [i \in {1} |-> IdleFrame]
    /\ refreshed = [day |-> local_ordinal(clock, tzoffset), count |-> 1, calls |-> 1]

Fresh == op.name = "import"

DateConstructors == {"fromdatetime", "fromordinal", "isodate", "parse_iso"}

\* A date was constructed, iso_implied was assigned at most once, and no
\* other method was called on it yet.
HasDate == op.name \in DateConstructors \cup {"set_implied"} /\ err = "none"

HasTime == op.name \in {"isotime", "isotime.parse_iso"} /\ err = "none"

HasDateTime == op.name \in {"isodatetime", "isodatetime.parse_iso"} /\ err = "none"

\* What a call of isodate.today() at this moment leaves in the cache.
CallToday == today(clock, tzoffset, today_cache, today_expire)

\* The calls counted after one more call of today()
Called(rf) == [rf EXCEPT !.calls = @ + 1]

\* The fills counted after the cache was filled at clock reading secs
Filled(rf, secs, offset) ==
    [rf EXCEPT !.day = local_ordinal(secs, offset),
               !.count = IF rf.day = local_ordinal(secs, offset) THEN @ + 1 ELSE 1]

\* What a call of isodate.today() at this moment leaves in the count.
CountToday ==
    IF today_expire < clock
    THEN Filled(Called(refreshed), clock, tzoffset)
    ELSE Called(refreshed)

\* A constructor call returned or raised: the new object is bound only when
\* it returned.
Bind(res, none) == IF res.err = "none" THEN res.obj ELSE none

\* A call that builds the isodate d returned or raised.
SetDate(res) == err' = res.err /\ d' = Bind(res, NoDate)

\* A method of d that builds an isodate returned or raised.
SetResult(res) == err' = res.err /\ r' = Bind(res, NoDate)

\* The cache after a constructor call: the constructor calls today() unless
\* no field or every field is given.
SetCache(a, now) ==
    /\ today_cache' = IF ~NoneGiven(a) /\ ~AllGiven(a) THEN now.cache ELSE today_cache
    /\ today_expire' = IF ~NoneGiven(a) /\ ~AllGiven(a) THEN now.expire ELSE today_expire
    /\ refreshed' = IF ~NoneGiven(a) /\ ~AllGiven(a) THEN CountToday ELSE refreshed

\* The cache after parse_iso: the constructor is called only when value
\* matched a pattern.
SetCacheParsed(args, now) ==
    IF args.err = "none"
    THEN SetCache(args.val, now)
    ELSE UNCHANGED <<today_cache, today_expire, refreshed>>

\* isodate.fromdatetime(dt) with dt the platform date of ordinal o
FromDatetime(o) ==
    /\ Fresh
    /\ SetDate(fromdatetime(o))
    /\ op' = [NoCall("fromdatetime") EXCEPT !.n = o]
    /\ UNCHANGED <<thread, refreshed, clock, tzoffset, today_cache, today_expire, r, out, t, dt>>

\* isodate.fromordinal(o)
FromOrdinal(o) ==
    /\ Fresh
    /\ SetDate(fromordinal(o))
    /\ op' = [NoCall("fromordinal") EXCEPT !.n = o]
    /\ UNCHANGED <<thread, refreshed, clock, tzoffset, today_cache, today_expire, r, out, t, dt>>

\* isodate(**a) when today() leaves now
ConstructAt(a, now) ==
    /\ Fresh
    /\ SetDate(isodate_init(a, now.cache))
    /\ SetCache(a, now)
    /\ op' = [NoCall("isodate") EXCEPT !.a = a]
    /\ UNCHANGED <<thread, clock, tzoffset, r, out, t, dt>>

\* isodate(**a)
Construct(a) == ConstructAt(a, CallToday)

\* isodate.parse_iso(value, expand_digits) when today() leaves now
ParseIsoAt(value, expand_digits, now) ==
    /\ Fresh
    /\ SetDate(parse_iso(value, expand_digits, now.cache))
    /\ SetCacheParsed(parse_iso_args(value, expand_digits), now)
    /\ op' = [NoCall("parse_iso") EXCEPT !.value = value, !.n = expand_digits]
    /\ UNCHANGED <<thread, clock, tzoffset, r, out, t, dt>>

\* isodate.parse_iso(value, expand_digits)
ParseIso(value, expand_digits) == ParseIsoAt(value, expand_digits, CallToday)

\* A method that changes d returned or raised: what it assigned before it
\* raised stays assigned.
SetSelf(res) == err' = res.err /\ d' = res.obj

\* d.iso_implied = value, once after the construction
SetImplied(value) ==
    /\ op.name \in DateConstructors /\ err = "none"
    /\ SetSelf(set_iso_implied(d, value))
    /\ op' = [NoCall("set_implied") EXCEPT !.a = value]
    /\ UNCHANGED <<thread, refreshed, clock, tzoffset, today_cache, today_expire, r, out, t, dt>>

\* A formatting call returned a string or raised.
SetOut(res) == err' = res.err /\ out' = res.val

\* A formatting that stores the day of month it clamped to 28 in d: a faulty
\* variant of isoformat.
IsoFormatStoring(fmt) ==
    /\ HasDate
    /\ SetOut(isoformat(d, fmt.representation, fmt.basic, fmt.reduced, fmt.truncated,
                        fmt.expanded))
    /\ d' = [d EXCEPT !.f.dayofmonth = Min({d.f.dayofmonth, 28})]
    /\ op' = [NoCall("isoformat") EXCEPT !.fmt = fmt]
    /\ UNCHANGED <<thread, refreshed, clock, tzoffset, today_cache, today_expire, r, t, dt>>

\* d.isoformat(**fmt)
IsoFormat(fmt) ==
    /\ HasDate
    /\ SetOut(isoformat(d, fmt.representation, fmt.basic, fmt.reduced, fmt.truncated,
                        fmt.expanded))
    /\ op' = [NoCall("isoformat") EXCEPT !.fmt = fmt]
    /\ UNCHANGED <<thread, refreshed, clock, tzoffset, today_cache, today_expire, d, r, t, dt>>

\* isodate.parse_iso(out, expand_digits) when today() leaves now
ParseFormattedAt(expand_digits, now) ==
    /\ op.name = "isoformat" /\ err = "none"
    /\ SetResult(parse_iso(out, expand_digits, now.cache))
    /\ SetCacheParsed(parse_iso_args(out, expand_digits), now)
    /\ op' = [op EXCEPT !.name = "parse_formatted", !.value = out]
    /\ UNCHANGED <<thread, clock, tzoffset, d, out, t, dt>>

\* isodate.parse_iso(out, expand_digits) on the string d.isoformat returned,
\* with one expansion digit when the string was formatted expanded.
ParseFormatted == ParseFormattedAt(IF op.fmt.expanded THEN 1 ELSE None, CallToday)

\* The names of the fields given in a
GivenNames(a) == {FieldNames[i] : i \in {j \in 1..Len(FieldNames) : a[FieldNames[j]] # None}}

\* The fields a truncated representation holds, by representation and by
\* the truncated option that names its first field.
TruncatedNames(representation, truncated) ==
    IF representation = CALENDAR /\ truncated = YEAR THEN {"year", "month", "dayofmonth"}
    ELSE IF representation = CALENDAR /\ truncated = MONTH THEN {"month", "dayofmonth"}
    ELSE IF representation = CALENDAR /\ truncated = DAYOFMONTH THEN {"dayofmonth"}
    ELSE IF representation = ORDINAL /\ truncated = YEAR THEN {"year", "dayofyear"}
    ELSE IF representation = ORDINAL /\ truncated = DAYOFYEAR THEN {"dayofyear"}
    ELSE IF representation = WEEK /\ truncated = WEEKOFYEAR THEN {"weekofyear", "dayofweek"}
    ELSE {}

\* d is a truncated date resolved against a reference, and the options are
\* those of its own truncated representation.
TruncatedCase(fmt) ==
    /\ GivenNames(d.orig) # {}
    /\ GivenNames(d.orig) = TruncatedNames(fmt.representation, fmt.truncated)
    /\ fmt.reduced = NonePair /\ ~fmt.expanded /\ d.implied # NoFields

\* A day passes while the truncated representation of d is kept.
NextDay ==
    /\ op.name = "isoformat" /\ err = "none" /\ TruncatedCase(op.fmt)
    /\ clock < MaxDays * SecondsPerDay
    /\ clock' = clock + SecondsPerDay
    /\ UNCHANGED <<tzoffset, today_cache, today_expire, op, err, d, r, out, t, dt, thread,
                   refreshed>>

\* A method that changes r returned or raised: what it assigned before it
\* raised stays assigned.
SetResultSelf(res) == err' = res.err /\ r' = res.obj

\* r.iso_implied = d.iso_implied, on the isodate r parsed from a truncated
\* representation of d
ResolveParsed ==
    /\ op.name = "parse_formatted" /\ err = "none"
    /\ TruncatedCase(op.fmt)
    /\ SetResultSelf(set_iso_implied(r, d.implied))
    /\ op' = [op EXCEPT !.name = "resolve_parsed"]
    /\ UNCHANGED <<thread, refreshed, clock, tzoffset, today_cache, today_expire, d, out, t,
                   dt>>

\* d.replace(year, month, day)
Replace(year, month, day) ==
    /\ HasDate
    /\ SetResult(replace(d, year, month, day))
    /\ op' = [NoCall("replace") EXCEPT !.a = Fields(None, None, year, month, day, None,
                                                    None, None, None, None, None)]
    /\ UNCHANGED <<thread, refreshed, clock, tzoffset, today_cache, today_expire, d, out, t, dt>>

\* d + datetime.timedelta(days=n)
DateAdd(n) ==
    /\ HasDate
    /\ SetResult(date_add(d, n))
    /\ op' = [NoCall("add") EXCEPT !.n = n]
    /\ UNCHANGED <<thread, refreshed, clock, tzoffset, today_cache, today_expire, d, out, t, dt>>

\* d - datetime.timedelta(days=n)
DateSub(n) ==
    /\ HasDate
    /\ SetResult(date_sub(d, n))
    /\ op' = [NoCall("sub") EXCEPT !.n = n]
    /\ UNCHANGED <<thread, refreshed, clock, tzoffset, today_cache, today_expire, d, out, t, dt>>

\* A call that builds the isotime t returned or raised.
SetTime(res) == err' = res.err /\ t' = Bind(res, NoTimeObj)

\* isotime(**ta)
TimeConstruct(ta) ==
    /\ Fresh
    /\ SetTime(isotime_init(ta.hour, ta.minute, ta.second, ta.microsecond, ta.tzinfo,
                            datetime_now(clock, tzoffset)))
    /\ op' = [NoCall("isotime") EXCEPT !.targ = ta]
    /\ UNCHANGED <<thread, refreshed, clock, tzoffset, today_cache, today_expire, d, r, out, dt>>

\* isotime.parse_iso(value)
TimeParseIso(value) ==
    /\ Fresh
    /\ SetTime(time_parse_iso(value, datetime_now(clock, tzoffset)))
    /\ op' = [NoCall("isotime.parse_iso") EXCEPT !.value = value]
    /\ UNCHANGED <<thread, refreshed, clock, tzoffset, today_cache, today_expire, d, r, out, dt>>

\* t.isoformat(**tfmt)
TimeIsoFormat(tfmt) ==
    /\ HasTime
    /\ SetOut(time_isoformat(t, tfmt.basic, tfmt.reduced, tfmt.truncated, tfmt.fraction,
                             tfmt.preferred_mark, tfmt.timezone))
    /\ op' = [NoCall("isotime.isoformat") EXCEPT !.tfmt = tfmt]
    /\ UNCHANGED <<thread, refreshed, clock, tzoffset, today_cache, today_expire, d, r, t, dt>>

\* t <oper> isotime(**ta)
TimeCompare(oper, ta) ==
    /\ HasTime
    /\ SetOut(time_compare(oper, t, IsoTime(ta, ta)))
    /\ op' = [NoCall("isotime.compare") EXCEPT !.value = <<oper>>, !.targ = ta]
    /\ UNCHANGED <<thread, refreshed, clock, tzoffset, today_cache, today_expire, d, r, t, dt>>

\* A call that builds the isodatetime dt returned or raised.
SetDateTime(res) == err' = res.err /\ dt' = Bind(res, NoDateTime)

\* isodatetime(**a, **ta) when today() leaves now.  The isodate is built
\* first, so today() is called even when the isotime then raises.
DateTimeConstructAt(a, ta, now) ==
    /\ Fresh
    /\ SetDateTime(isodatetime_init(a, ta.hour, ta.minute, ta.second, ta.microsecond,
                                    ta.tzinfo, now.cache, datetime_now(clock, tzoffset)))
    /\ SetCache(a, now)
    /\ op' = [NoCall("isodatetime") EXCEPT !.a = a, !.targ = ta]
    /\ UNCHANGED <<thread, clock, tzoffset, d, r, out, t>>

\* isodatetime(**a, **ta)
DateTimeConstruct(a, ta) == DateTimeConstructAt(a, ta, CallToday)

\* The cache after isodatetime.parse_iso: the date is parsed only when value
\* holds one designator.
SetCacheSplit(value, now) ==
    IF Cardinality(designators(value)) = 1
    THEN SetCacheParsed(
             parse_iso_args(SubSeq(value, 1, (CHOOSE i \in designators(value) : TRUE) - 1),
                            None), now)
    ELSE UNCHANGED <<today_cache, today_expire, refreshed>>

\* isodatetime.parse_iso(value) when today() leaves now
DateTimeParseIsoAt(value, now) ==
    /\ Fresh
    /\ SetDateTime(datetime_parse_iso(value, None, now.cache, datetime_now(clock, tzoffset)))
    /\ SetCacheSplit(value, now)
    /\ op' = [NoCall("isodatetime.parse_iso") EXCEPT !.value = value]
    /\ UNCHANGED <<thread, clock, tzoffset, d, r, out, t>>

\* isodatetime.parse_iso(value)
DateTimeParseIso(value) == DateTimeParseIsoAt(value, CallToday)

\* dt.isoformat(**fmt)
DateTimeIsoFormat(fmt) ==
    /\ HasDateTime
    /\ out' = datetime_isoformat(dt, fmt.representation, fmt.basic, fmt.reduced,
                                 fmt.truncated, fmt.expanded)
    /\ err' = "none"
    /\ op' = [NoCall("isodatetime.isoformat") EXCEPT !.fmt = fmt]
    /\ UNCHANGED <<thread, refreshed, clock, tzoffset, today_cache, today_expire, d, r, t, dt>>

Next ==
    \/ \E o \in PlatformDates : FromDatetime(o)
    \/ \E o \in Ordinals : FromOrdinal(o)
    \/ \E a \in ConstructArgs : Construct(a)
    \/ \E value \in DateStrings : ParseIso(value, None)
    \/ \E value \in ExpandedStrings : ParseIso(value, 1)
    \/ \E value \in ImpliedValues : SetImplied(value)
    \/ \E fmt \in DateFmts : IsoFormat(fmt)
    \/ NextDay
    \/ ParseFormatted
    \/ ResolveParsed
    \/ \E a \in ReplaceArgs : Replace(a[1], a[2], a[3])
    \/ \E n \in Deltas : DateAdd(n)
    \/ \E n \in Deltas : DateSub(n)
    \/ \E ta \in TimeArgs : TimeConstruct(ta)
    \/ \E value \in TimeStrings : TimeParseIso(value)
    \/ \E tfmt \in TimeFmts : TimeIsoFormat(tfmt)
    \/ \E oper \in CompareOperators, ta \in CompareTimes : TimeCompare(oper, ta)
    \/ \E a \in DateTimeArgs : DateTimeConstruct(a[1], a[2])
    \/ \E value \in DateTimeStrings : DateTimeParseIso(value)
    \/ \E fmt \in DateTimeFmts : DateTimeIsoFormat(fmt)

Spec == Init /\ [][Next]_vars

(***************************************************************************)
(* isodate.today() statement by statement, called from several threads     *)
(* while the clock advances                                                *)
(***************************************************************************)

\* The state once the package is imported, with the threads in Threads about
\* to call isodate.today().
InitThreads(Threads) ==
    /\ clock \in ImportClocks
    /\ tzoffset \in LocalOffsets
    /\ today_cache = fromtimestamp(clock, tzoffset)
    /\ today_expire = next_midnight(clock, tzoffset)
    /\ op = NoCall("import")
    /\ err = "none"
    /\ d = NoDate
    /\ r = NoDate
    /\ out = <<>>
    /\ t = NoTimeObj
    /\ dt = NoDateTime
    /\ thread = [i \in Threads |-> IdleFrame]
    /\ refreshed = [day |-> local_ordinal(clock, tzoffset), count |-> 1, calls |-> 1]

\* Thread i moves to frame and nothing but its frame changes.
Step(i, frame) ==
    /\ thread' = [thread EXCEPT ![i] = frame]
    /\ UNCHANGED <<clock, tzoffset, op, err, d, r, out, t, dt>>

\* time.time() advances.
Tick ==
    /\ clock < MaxTicks * TickSeconds
    /\ clock' = clock + TickSeconds
    /\ UNCHANGED <<tzoffset, today_cache, today_expire, op, err, d, r, out, t, dt, thread,
                   refreshed>>

\* Thread i calls isodate.today(): t = time.time()
TodayCall(i) ==
    /\ thread[i].pc = "idle"
    /\ refreshed.calls < MaxCalls
    /\ Step(i, [IdleFrame EXCEPT !.pc = "test", !.t = clock])
    /\ refreshed' = Called(refreshed)
    /\ UNCHANGED <<today_cache, today_expire>>

\* if cls.__today_expire < t:
TodayTest(i) ==
    /\ thread[i].pc = "test"
    /\ Step(i, [thread[i] EXCEPT !.pc = IF today_expire < thread[i].t THEN "clear"
                                                                        ELSE "assert"])
    /\ UNCHANGED <<today_cache, today_expire, refreshed>>

\* secs = time.time(); tt = time.gmtime(secs); cls.__today_cache = None
TodayClear(i) ==
    /\ thread[i].pc = "clear"
    /\ Step(i, [thread[i] EXCEPT !.pc = "fill", !.secs = clock])
    /\ today_cache' = NoFields
    /\ UNCHANGED <<today_expire, refreshed>>

\* cls.__today_cache = cls.fromtimestamp(secs)
TodayFill(i) ==
    /\ thread[i].pc = "fill"
    /\ Step(i, [thread[i] EXCEPT !.pc = "expire"])
    /\ today_cache' = fromtimestamp(thread[i].secs, tzoffset)
    /\ refreshed' = Filled(refreshed, thread[i].secs, tzoffset)
    /\ UNCHANGED today_expire

\* cls.__today_expire = time.mktime((tt.tm_year, tt.tm_mon, tt.tm_mday+1, ...))
TodayExpire(i) ==
    /\ thread[i].pc = "expire"
    /\ Step(i, [thread[i] EXCEPT !.pc = "assert"])
    /\ today_expire' = next_midnight(thread[i].secs, tzoffset)
    /\ UNCHANGED <<today_cache, refreshed>>

\* assert cls.__today_cache, "No cached isodate."
TodayAssert(i) ==
    /\ thread[i].pc = "assert"
    /\ Step(i, IF today_cache = NoFields
               THEN [thread[i] EXCEPT !.pc = "idle", !.raised = TRUE, !.done = TRUE,
                                      !.at = clock]
               ELSE [thread[i] EXCEPT !.pc = "return"])
    /\ UNCHANGED <<today_cache, today_expire, refreshed>>

\* return cls.__today_cache
TodayReturn(i) ==
    /\ thread[i].pc = "return"
    /\ Step(i, [thread[i] EXCEPT !.pc = "idle", !.ret = today_cache, !.done = TRUE,
                                 !.at = clock])
    /\ UNCHANGED <<today_cache, today_expire, refreshed>>

NextToday ==
    \/ Tick
    \/ \E i \in DOMAIN thread : TodayCall(i)
    \/ \E i \in DOMAIN thread : TodayTest(i)
    \/ \E i \in DOMAIN thread : TodayClear(i)
    \/ \E i \in DOMAIN thread : TodayFill(i)
    \/ \E i \in DOMAIN thread : TodayExpire(i)
    \/ \E i \in DOMAIN thread : TodayAssert(i)
    \/ \E i \in DOMAIN thread : TodayReturn(i)

\* One thread calls today() again and again.
InitToday == InitThreads({1})

SpecToday == InitToday /\ [][NextToday]_vars

\* Two threads call today().
InitConcurrent == InitThreads({1, 2})

SpecConcurrent == InitConcurrent /\ [][NextToday]_vars

(***************************************************************************)
(* Properties                                                              *)
(***************************************************************************)

\* The year the fields f name.
YearOf(f) == f.expanded * 10000 + f.century * 100 + f.year

\* The week-year the fields f name.
WeekYearOf(f) == f.weekcentury * 100 + f.weekdecade * 10 + f.weekyearofdec

\* The three field groups of f are those of the platform date pdate, whose
\* ISO calendar triple is iso.
DenotesDate(f, pdate, iso) ==
    /\ YearOf(f) = pdate.year
    /\ f.month = pdate.month /\ f.dayofmonth = pdate.day
    /\ f.dayofyear = pdate.yday
    /\ WeekYearOf(f) = iso[1] /\ f.weekofyear = iso[2] /\ f.dayofweek = iso[3]

\* The three field groups of f denote the day with proleptic Gregorian
\* ordinal o.
DenotesOrdinal(f, o) == DenotesDate(f, PlatformFromOrdinal(o), PlatformIsoCalendar(o))

\* The month and day of month of f are a day of the year of f, and the day
\* of year and the week triple of f denote that same day.
SameDay(f) ==
    /\ f.month \in 1..12
    /\ f.dayofmonth \in 1..PlatformDaysInMonth(YearOf(f), f.month)
    /\ DenotesOrdinal(f, PlatformOrdinal(YearOf(f), f.month, f.dayofmonth))

\* C1: every isodate a construction route returns (partial fields completed
\* from the implied reference, all eleven fields, fromdatetime, replace) has
\* its month and day of month, its day of year and its week triple denote the
\* same day of the same year, and a construction from eleven fields that
\* disagree raises ValueError.
C1_FieldGroupsAgree ==
    /\ (op.name \in DateConstructors /\ err = "none") => SameDay(d.f)
    /\ (op.name = "replace" /\ err = "none") => SameDay(r.f)
    /\ (op.name = "isodate" /\ AllGiven(op.a) /\ ~SameDay(op.a)) => err = "ValueError"

\* A field set that is complete for one representation.
CompleteFields(a) ==
    \/ a.century # None /\ a.year # None /\ a.month # None /\ a.dayofmonth # None
    \/ a.century # None /\ a.year # None /\ a.dayofyear # None
    \/ /\ a.weekcentury # None /\ a.weekdecade # None /\ a.weekyearofdec # None
       /\ a.weekofyear # None /\ a.dayofweek # None

\* The options of a complete representation, not reduced, truncated or
\* expanded.
CompleteFmt(fmt) ==
    /\ fmt.representation \in {CALENDAR, ORDINAL, WEEK}
    /\ fmt.reduced = NonePair /\ fmt.truncated = NonePair /\ ~fmt.expanded

\* C2: for an isodate V built from a complete field set, each representation
\* of CALENDAR, ORDINAL and WEEK and each of basic and extended format,
\* parse_iso(V.isoformat(representation, basic)) compares equal to V,
\* whatever today() returns.
C2_RoundTrip ==
    (op.name = "parse_formatted" /\ CompleteFmt(op.fmt)
        /\ CompleteFields(d.orig) /\ SameDay(d.f))
    => (err = "none" /\ date_cmp(r, d) = 0)

\* The fields and the ordinal that the claim on the three representations
\* compares.
SameAbsoluteDay(x, y) ==
    /\ x.f.century = y.f.century /\ x.f.year = y.f.year
    /\ x.f.month = y.f.month /\ x.f.dayofmonth = y.f.dayofmonth
    /\ x.f.dayofyear = y.f.dayofyear
    /\ x.ordinal = y.ordinal

\* The isodate d is parsed and denotes the absolute day of the parsed
\* reference ref.
ParsedLike(ref) == err = "none" /\ ref.err = "none" /\ SameAbsoluteDay(d, ref.obj)

\* C3: for every day, parsing its complete calendar, ordinal and week
\* representation, basic or extended, gives values of the same century,
\* year, month, day of month, day of year and ordinal: each is compared with
\* the value parsed from the basic calendar representation.
C3_ThreeRepresentations ==
    \A o \in PlatformDates : \A representation \in {CALENDAR, ORDINAL, WEEK} :
        \A basic \in BOOLEAN :
            (op.name = "parse_iso" /\ op.n = None
                /\ op.value = CompleteString(o, representation, basic))
            => ParsedLike(parse_iso(CompleteString(o, CALENDAR, TRUE), None, CallToday.cache))

\* The parse returned ref and d holds the fields it holds.
SameTuple(ref) == ref.err = "none" /\ ref.obj.f = d.f

\* C4: for every platform date, fromdatetime holds the same eleven fields as
\* parse_iso of the string CCYY-MM-DD of that date.
C4_FromDatetimeAsParsed ==
    \A o \in PlatformDates :
        (op.name = "fromdatetime" /\ op.n = o)
        => (err = "none"
            /\ SameTuple(parse_iso(CompleteString(o, CALENDAR, FALSE), None, CallToday.cache)))

\* The days of the year of a, 366 when a does not give the year.
YearLength(a) ==
    IF a.century = None \/ a.year = None THEN 366
    ELSE IF PlatformLeap(a.century * 100 + a.year) THEN 366 ELSE 365

\* A given field of a lies outside its closed bound.
OutOfBound(a) ==
    \/ a.month # None /\ a.month \notin 1..12
    \/ a.dayofmonth # None /\ a.dayofmonth \notin 1..31
    \/ a.dayofyear # None /\ a.dayofyear \notin 1..YearLength(a)
    \/ a.weekofyear # None /\ a.weekofyear \notin 1..53
    \/ a.dayofweek # None /\ a.dayofweek \notin 1..7

\* The string matched a pattern and a field it gives is out of bound.
ParsedOutOfBound(args) == args.err = "none" /\ OutOfBound(args.val)

OtherTimeFieldsValid(ta) ==
    /\ ta.hour = None \/ ta.hour \in 0..24
    /\ ta.minute = None \/ ta.minute \in 0..59
    /\ ta.microsecond = None \/ ta.microsecond \in 0..999999

\* C6: the isotime constructor accepts second=60 exactly when hour=23 and
\* minute=59 and raises ValueError for second=60 otherwise; it accepts
\* seconds 0..59 and no second above 60.
C6_LeapSecond ==
    (op.name = "isotime" /\ op.targ.second # None /\ OtherTimeFieldsValid(op.targ))
    => /\ op.targ.second \in 0..59 => err = "none"
       /\ (op.targ.second = 60 /\ op.targ.hour = 23 /\ op.targ.minute = 59) => err = "none"
       /\ (op.targ.second = 60 /\ ~(op.targ.hour = 23 /\ op.targ.minute = 59))
          => err = "ValueError"
       /\ op.targ.second > 60 => err # "none"

\* Complete representations of a time of day, basic and extended.
CompleteTimeBodies == { <<"1", "2", "3", "5", "3", "2">>,
                        <<"1", "2", ":", "3", "5", ":", "3", "2">> }

\* The minutes a signed offset written hh, hhmm or hh:mm names.
SignedOffset(x) ==
    (IF x[1] = "-" THEN 0 - 1 ELSE 1)
    * (StrInt(SubSeq(x, 2, 3)) * 60
       + (IF Len(x) > 3 THEN StrInt(SubSeq(x, Len(x) - 1, Len(x))) ELSE 0))

\* The UTC offset in minutes that the timezone suffix x names.
SuffixOffset(x) == IF x = <<"Z">> THEN 0 ELSE SignedOffset(x)

\* Timezone suffixes: Z, or a signed offset of less than a day.
OffsetSuffixes == { x \in TzSuffixes : x # <<>> /\ Abs(SuffixOffset(x)) < 1440 }

\* C7: isotime.parse_iso accepts a time of day followed by a timezone suffix
\* that is Z or a signed offset written hh, hhmm or hh:mm, and the parsed UTC
\* offset is the sign times (hh hours + mm minutes), zero for Z.
C7_TimezoneSuffix ==
    \A b \in CompleteTimeBodies : \A x \in OffsetSuffixes :
        (op.name = "isotime.parse_iso" /\ op.value = b \o x)
        => (err = "none" /\ t.f.tzinfo = SuffixOffset(x))

\* The string out is the date part, the designator T and the time part.
DateTimeJoined(datepart, timepart) ==
    /\ datepart.err = "none" /\ timepart.err = "none"
    /\ out = datepart.val \o <<"T">> \o timepart.val

\* C8: isodatetime.isoformat returns the date part in the requested
\* representation, basic or extended, then T, then the time part in the same
\* basic or extended format with its timezone, as one string.
C8_DateTimeFormat ==
    op.name = "isodatetime.isoformat"
    => (err = "none"
        /\ DateTimeJoined(isoformat(dt.date, op.fmt.representation, op.fmt.basic,
                                    NonePair, NonePair, FALSE),
                          time_isoformat(dt.time, op.fmt.basic, NonePair, NonePair,
                                         TRUE, FALSE, TRUE)))

\* C9: an isodate built from the century, year, month and day of month of a
\* Gregorian calendar date has the proleptic Gregorian ordinal of that date,
\* 1 for 1 January 0001; different days then have different ordinals.
C9_ProlepticOrdinal ==
    \A o \in PlatformDates :
        (op.name = "isodate" /\ op.a = CalendarArgs(o))
        => (err = "none" /\ d.ordinal = o)

\* The step left d alone and r is the day of ordinal o with its fields, or
\* OverflowError is raised when o is not an ordinal of the platform.
ArithmeticResult(o) ==
    /\ d' = d
    /\ IF o \in 1..MaxOrdinal
       THEN err' = "none" /\ r'.ordinal = o /\ DenotesOrdinal(r'.f, o)
       ELSE err' = "OverflowError"

\* C10: d + timedelta(days=n) and d - timedelta(days=n) return a new value
\* of ordinal d.toordinal() + n, respectively - n, with the calendar, ordinal
\* and week fields of that day when that ordinal is in 1..date.max.toordinal(),
\* and raise OverflowError otherwise; d is unchanged.
C10_DayArithmetic ==
    [][/\ op'.name = "add" => ArithmeticResult(d.ordinal + op'.n)
       /\ op'.name = "sub" => ArithmeticResult(d.ordinal - op'.n)]_vars

\* The last day of a year plus one day is the first day of the next year.
C10_NewYear ==
    /\ op.name = "add" /\ op.n = 1 /\ err = "none"
    /\ d.f.month = 12 /\ d.f.dayofmonth = 31
    /\ r.f.month = 1 /\ r.f.dayofmonth = 1 /\ r.f.dayofyear = 1
    /\ YearOf(r.f) = YearOf(d.f) + 1
    /\ r.ordinal = d.ordinal + 1

\* The resolved fields and the ordinal of d are the same after the step.
SameResolved == d'.f = d.f /\ d'.ordinal = d.ordinal

\* C11: once an isodate is constructed, no later operation on it, the
\* assignment of iso_implied included, changes its resolved fields or its
\* ordinal.
C11_NeverChanges == [][d # NoDate => SameResolved]_vars

\* C11, amended: once an isodate is constructed, no later operation on it
\* other than the assignment of iso_implied changes its resolved fields or
\* its ordinal.
C11_ChangesOnlyOnAssignment ==
    [][(d # NoDate /\ op'.name # "set_implied") => SameResolved]_vars

\* A date with an implied century that was resolved against an assigned
\* reference of 1967 has been formatted.
C11_FormattedAfterAssignment ==
    /\ op.name = "isoformat" /\ err = "none"
    /\ d.orig.century = None /\ d.implied.century = 19 /\ d.implied.year = 67
    /\ d.f.century = 19


\* The first local midnight after clock reading secs
first_local_midnight(secs, offset) ==
    ((secs + offset) \div SecondsPerDay + 1) * SecondsPerDay - offset

\* The call thread i finished returned the date of a local day that the clock
\* was in between the call and the return.
ReturnedLocalDay(i) ==
    (thread[i].done /\ ~thread[i].raised) =>
        \E o \in local_ordinal(thread[i].t, tzoffset)..local_ordinal(thread[i].at, tzoffset) :
            thread[i].ret = fromdatetime(o).obj.f

\* Thread i has just written the expiry after it filled the cache.
WroteExpiry(i) == thread[i].pc = "assert" /\ thread[i].secs # None

\* C12: every call of today() returns the date of the current local calendar
\* day, and the expiry a refresh at clock reading secs stores is the first
\* local midnight after secs, for every local UTC offset.
C12_TodayIsLocalDay ==
    \A i \in DOMAIN thread :
        /\ ReturnedLocalDay(i)
        /\ WroteExpiry(i) => today_expire = first_local_midnight(thread[i].secs, tzoffset)

\* C13: within one local calendar day the calls of today() by one process
\* fill the cache at most once.
C13_OneRefreshPerDay == refreshed.count <= 1

\* The threads between the test of the expiry and the write of the new one
Refreshing == {i \in DOMAIN thread : thread[i].pc \in {"clear", "fill", "expire"}}

\* C14: at most one thread at a time is between the test of the expiry and
\* the write of the new expiry.
C14_OneThreadRefreshes == Cardinality(Refreshing) <= 1

\* The arguments give no year and no week-year, and a last day or week that
\* only some months, years or week-years have: day of month 29, 30 or 31
\* without a month, day of year 366, or week 53.
ImpliedEnd(a) ==
    /\ a.expanded = None /\ a.century = None /\ a.year = None
    /\ a.weekcentury = None /\ a.weekdecade = None /\ a.weekyearofdec = None
    /\ \/ /\ a.dayofmonth \in {29, 30, 31}
          /\ a.month = None /\ a.dayofyear = None /\ a.weekofyear = None /\ a.dayofweek = None
       \/ /\ a.dayofyear = 366
          /\ a.month = None /\ a.dayofmonth = None /\ a.weekofyear = None /\ a.dayofweek = None
       \/ /\ a.weekofyear = 53
          /\ a.month = None /\ a.dayofmonth = None /\ a.dayofyear = None

\* The string matched a pattern that gives such arguments.
ParsedImpliedEnd(args) == args.err = "none" /\ ImpliedEnd(args.val)

\* C15: a truncated date with day of month 29, 30 or 31, with day of year 366
\* or with week 53, its year, month or week-year implied, is accepted by the
\* constructor and by parse_iso whatever the current date is.
C15_EndValuesAccepted ==
    /\ (op.name = "isodate" /\ ImpliedEnd(op.a)) => err = "none"
    /\ (op.name = "parse_iso" /\ ParsedImpliedEnd(parse_iso_args(op.value, op.n)))
           => err = "none"

\* The number of ISO weeks of week-year y: the week of 28 December
PlatformWeeksInYear(y) == PlatformIsoCalendar(PlatformOrdinal(y, 12, 28))[2]

\* The date was built from a day of month alone, and its implied month is
\* shorter than that day.
BeyondMonth(x) ==
    /\ x.orig = [NoFields EXCEPT !.dayofmonth = x.orig.dayofmonth]
    /\ x.f.dayofmonth > PlatformDaysInMonth(YearOf(x.f), x.f.month)

\* The date was built from a week alone, and its implied week-year has fewer
\* weeks.
BeyondWeekYear(x) ==
    /\ x.orig = [NoFields EXCEPT !.weekofyear = x.orig.weekofyear]
    /\ x.f.weekofyear > PlatformWeeksInYear(WeekYearOf(x.f))

\* The string ends with the two digits of n, followed by rest characters.
EndsWith(s, n, rest) ==
    /\ Len(s) >= 2 + rest
    /\ SubSeq(s, Len(s) - rest - 1, Len(s) - rest) = FmtD(n, 2)

\* C16: isoformat renders a day of month beyond the end of the implied month
\* as the last day of that month and a week beyond the end of the implied
\* week-year as its last week, and leaves the stored fields as they were.
C16_RendersLastDay ==
    [][(op'.name = "isoformat" /\ err' = "none" /\ op'.fmt.reduced = NonePair)
       => /\ (BeyondMonth(d) /\ op'.fmt.representation = CALENDAR)
                => EndsWith(out', PlatformDaysInMonth(YearOf(d.f), d.f.month), 0)
          /\ (BeyondWeekYear(d) /\ op'.fmt.representation = WEEK)
                => EndsWith(out', PlatformWeeksInYear(WeekYearOf(d.f)),
                            IF op'.fmt.basic THEN 1 ELSE 2)
          /\ (BeyondMonth(d) \/ BeyondWeekYear(d)) => d'.f = d.f]_vars


\* C17: a truncated date formatted with its matching truncated option, parsed
\* again and resolved against the same reference has the same fields, and
\* each of the three calls succeeds, whatever today() returns.
C17_TruncatedRoundTrip ==
    /\ (op.name \in {"isoformat", "parse_formatted"} /\ TruncatedCase(op.fmt)) => err = "none"
    /\ (op.name = "resolve_parsed" /\ TruncatedCase(op.fmt)) => (err = "none" /\ r.f = d.f)

\* The leap rule as it is stated for the engine
EngineLeap(century, year) == year % 4 = 0 /\ (century # 0 \/ century % 4 = 0)

\* The arguments give day of year 366 and no other day, month or week.
LastDayArgs(a) ==
    /\ a.dayofyear = 366
    /\ a.month = None /\ a.dayofmonth = None /\ a.weekofyear = None /\ a.dayofweek = None
    /\ a.weekcentury = None /\ a.weekdecade = None /\ a.weekyearofdec = None

\* The call returned when the year that a takes from itself or from refdate
\* is a leap year of the engine, and raised ValueError when it is not.
ReturnsInLeapYear(a, refdate) ==
    IF EngineLeap(given(a, refdate, "century"), given(a, refdate, "year"))
    THEN err = "none"
    ELSE err = "ValueError"

WithoutExpansion(value, expand_digits) ==
    IF expand_digits # None /\ expand_digits # 0
    THEN SubSeq(value, expand_digits + 2, Len(value))
    ELSE value

\* The table holds no pattern for the length of value, or none of the
\* patterns for that length matches value.
NoPattern(table, value) ==
    \/ Len(value) \notin DOMAIN table
    \/ \A k \in 1..Len(table[Len(value)]) :
           ~re_match(table[Len(value)][k], 1, value, 1, NoFields).matched

\* No pattern of the shape of value (hyphen or not, W or not) fits value.
Unparsable(value) ==
    NoPattern(representations(Contains(value, "-"), Contains(value, "W")), value)

\* C19: parse_iso raises ValueError and builds no isodate when the string,
\* its expansion digits taken off, has a length its shape has no pattern for
\* or matches no pattern of that length.
C19_UnparsableRaises ==
    /\ (op.name = "parse_iso" /\ Unparsable(WithoutExpansion(op.value, op.n)))
           => (err = "ValueError" /\ d = NoDate)
    /\ (op.name = "parse_formatted"
            /\ Unparsable(WithoutExpansion(op.value, IF op.fmt.expanded THEN 1 ELSE None)))
           => (err = "ValueError" /\ r = NoDate)

\* A string of a length that its shape has patterns for, none of which
\* matches, was given to parse_iso.
C19_NoPatternMatched ==
    /\ op.name = "parse_iso" /\ op.n = None
    /\ Len(op.value) \in DOMAIN representations(Contains(op.value, "-"), Contains(op.value, "W"))
    /\ Unparsable(op.value)
    /\ err = "ValueError"

\* C20: isoformat raises an error, and returns no string, when it is called
\* with expanded=True and a truncated option other than None and CENTURY.
C20_ExpandedTruncatedRaises ==
    (op.name = "isoformat" /\ op.fmt.expanded /\ op.fmt.truncated \notin {NonePair, CENTURY})
        => err # "none"

\* In the chain of fields, from the largest unit to the smallest, a field
\* between two given fields is not given.
Gap(a, chain) ==
    \E i, j, k \in 1..Len(chain) :
        /\ i < j /\ j < k
        /\ a[chain[i]] # None /\ a[chain[j]] = None /\ a[chain[k]] # None

\* The fields given are not contiguous in the calendar date, in the ordinal
\* date or in the week date.
NonContiguous(a) ==
    \/ Gap(a, <<"century", "year", "month", "dayofmonth">>)
    \/ Gap(a, <<"century", "year", "dayofyear">>)
    \/ Gap(a, <<"weekcentury", "weekdecade", "weekyearofdec", "weekofyear", "dayofweek">>)

\* C21: the constructor raises ValueError when the fields it is given are
\* not contiguous, as year and dayofmonth without month.
C21_NonContiguousRaises ==
    (op.name = "isodate" /\ NonContiguous(op.a)) => err = "ValueError"

\* The time of day of the fields, in microseconds
TimeOfDay(f) == (f.hour * 3600 + f.minute * 60 + f.second) * 1000000 + f.microsecond

\* The relation that the operator names holds between x and y.
Ordered(oper, x, y) ==
    IF oper = "eq" THEN x = y
    ELSE IF oper = "ne" THEN x # y
    ELSE IF oper = "lt" THEN x < y
    ELSE IF oper = "le" THEN x <= y
    ELSE IF oper = "gt" THEN x > y
    ELSE x >= y

\* C22: each of ==, !=, <, <=, >, >= between two isotime values returns the
\* boolean that the order of their times of day gives.
C22_TimeComparison ==
    op.name = "isotime.compare"
        => /\ err = "none"
           /\ out = (IF Ordered(op.value[1], TimeOfDay(t.f), TimeOfDay(op.targ))
                     THEN <<"True">> ELSE <<"False">>)

\* The week date of d was computed by weekdate_from_ordinal: d was built
\* without week and day of week, from fewer than all fields.
WeekDateComputed ==
    /\ op.name \in {"isodate", "parse_iso"} /\ err = "none"
    /\ d.orig.weekofyear = None /\ d.orig.dayofweek = None /\ d.implied # NoFields

\* The week number before the first and the last week of the year are
\* settled: (dayofyear - dow + 10) // 7
RawWeek(f) == (f.dayofyear - f.dayofweek + 10) \div 7

\* C23: when the computed week number is 53 and the day of week is below 4,
\* the week date is week 1 of the week-year after the calendar year.
C23_Week53RollsForward ==
    (WeekDateComputed /\ RawWeek(d.f) = 53 /\ d.f.dayofweek < 4)
        => (d.f.weekofyear = 1 /\ WeekYearOf(d.f) = YearOf(d.f) + 1)

\* The days that isodate.days_in_year gives year y
EngineDaysInYear(y) == IF EngineLeap((y \div 100) % 100, y % 100) THEN 366 ELSE 365

\* The days of year y in the Gregorian calendar
GregorianDaysInYear(y) == IF PlatformLeap(y) THEN 366 ELSE 365

\* The week number in the year before, which has days days
WeekOfYearBefore(f, days) == (days + f.dayofyear - f.dayofweek + 10) \div 7

\* C24: when the computed week number is 0, the week date is in the week-year
\* before the calendar year, its week computed with the days that
\* isodate.days_in_year gives that year, and is 52 or 53.
C24_Week0EngineDays ==
    (WeekDateComputed /\ RawWeek(d.f) = 0)
        => /\ WeekYearOf(d.f) = YearOf(d.f) - 1
           /\ d.f.weekofyear = WeekOfYearBefore(d.f, EngineDaysInYear(YearOf(d.f) - 1))
           /\ d.f.weekofyear \in {52, 53}

\* C24, amended: when the computed week number is 0, the week date is in the
\* week-year before the calendar year, its week computed with the days that
\* year has in the Gregorian calendar, and is 52 or 53.
C24_Week0GregorianDays ==
    (WeekDateComputed /\ RawWeek(d.f) = 0)
        => /\ WeekYearOf(d.f) = YearOf(d.f) - 1
           /\ d.f.weekofyear = WeekOfYearBefore(d.f, GregorianDaysInYear(YearOf(d.f) - 1))
           /\ d.f.weekofyear \in {52, 53}

\* The first day of 1701, a Saturday, was resolved: 1700 has 365 days in the
\* Gregorian calendar and 366 by the engine's leap test.
C24_FirstDayOf1701 ==
    /\ WeekDateComputed /\ RawWeek(d.f) = 0
    /\ YearOf(d.f) = 1701 /\ d.f.dayofyear = 1 /\ d.f.weekofyear = 52

\* The mask of a formatting request before the basic bit is looked at:
\* representation & reduced[0] & truncated[1], without the expansion bit when
\* expanded is false.
RequestedMask(fmt) ==
    clear_expanded(fmt.expanded,
        BitAnd(BitAnd(fmt.representation, precision(fmt.reduced)[1]),
               precision(fmt.truncated)[2]))

\* The mask of the extended template, and the same mask with the basic bit set
ExtendedMask(fmt) == BitAnd(RequestedMask(fmt), 1022)

BasicMask(fmt) == BitOr(RequestedMask(fmt), 1)

\* What the same call returns with basic=True
BasicCall(self, fmt) ==
    isoformat(self, fmt.representation, TRUE, fmt.reduced, fmt.truncated, fmt.expanded)

\* d.isoformat(basic=False, ...) returned or raised in this step
ExtendedFormatted == op'.name = "isoformat" /\ ~op'.fmt.basic /\ op' # op

OrdinalOfWeekDate(f) ==
    ordinal_from_weekdate(f.weekcentury, f.weekdecade, f.weekyearofdec, f.weekofyear,
                          f.dayofweek)

\* C26: ordinal_from_weekdate applied to the five values that
\* weekdate_from_ordinal returns for (expanded, century, year, dayofyear)
\* returns (expanded, century, year, dayofyear) again.
C26_WeekDateRoundTrip ==
    WeekDateComputed =>
        OrdinalOfWeekDate(d.f) = <<d.f.expanded, d.f.century, d.f.year, d.f.dayofyear>>

\* The designator that denotes a UTC offset of offset minutes: Z for zero,
\* else the sign, the hours and the minutes of the offset.
OffsetDesignator(offset, basic) ==
    IF offset = 0 THEN <<"Z">>
    ELSE (IF offset < 0 THEN <<"-">> ELSE <<"+">>)
         \o FmtD(Abs(offset) \div 60, 2)
         \o (IF basic THEN <<>> ELSE <<":">>)
         \o FmtD(Abs(offset) % 60, 2)

\* The string s ends with the string x
HasSuffix(s, x) == Len(s) >= Len(x) /\ SubSeq(s, Len(s) - Len(x) + 1, Len(s)) = x

\* An isotime with a UTC offset between -12:00 and +12:00 was formatted with
\* its timezone
TimeZoneFormatted ==
    /\ op.name = "isotime.isoformat" /\ err = "none" /\ op.tfmt.timezone
    /\ t.f.tzinfo # None /\ Abs(t.f.tzinfo) <= 720

\* C27: isotime.isoformat renders a zero UTC offset as Z and every other
\* offset between -12:00 and +12:00 as the sign, two-digit hours and two-digit
\* minutes of the offset of the value's tzinfo, with a colon between them
\* unless basic is true.
C27_OffsetRendered ==
    TimeZoneFormatted => HasSuffix(out, OffsetDesignator(t.f.tzinfo, op.tfmt.basic))

\* C28: under any interleaving of concurrent calls of isodate.today(), every
\* call that has ended returned an isodate, never None, and its assertion
\* 'No cached isodate.' did not fail.
C28_NoEmptyCacheObserved ==
    \A i \in DOMAIN thread :
        thread[i].done => (~thread[i].raised /\ thread[i].ret # NoFields)

\* d.iso_implied = value raised ValueError in this step
ImpliedRejected == op'.name = "set_implied" /\ op' # op /\ err' = "ValueError"

\* C29: when assigning iso_implied on an isodate raises ValueError, the isodate
\* keeps the implied reference, the resolved fields and the ordinal it had
\* before the assignment.
C29_RejectedImpliedKeepsState ==
    [][ImpliedRejected =>
        (d'.implied = d.implied /\ d'.f = d.f /\ d'.ordinal = d.ordinal)]_vars

\* The string parse_iso matched against the patterns: the argument without
\* its expansion digits.
MatchedValue ==
    IF op.n # None /\ op.n # 0 THEN SubSeq(op.value, op.n + 2, Len(op.value)) ELSE op.value

\* The table of the representation type of value
TableOf(value) == representations(Contains(value, "-"), Contains(value, "W"))

\* The patterns parse_iso tries on value
PatternsFor(value) ==
    IF Len(value) \in DOMAIN TableOf(value) THEN TableOf(value)[Len(value)] ELSE <<>>

RECURSIVE PatternWidth(_, _)
\* The number of characters pattern[i..] matches
PatternWidth(pattern, i) ==
    IF i > Len(pattern) THEN 0 ELSE pattern[i].n + PatternWidth(pattern, i + 1)

\* rep_re.match(value) is a match
Matches(pattern, value) == re_match(pattern, 1, value, 1, NoFields).matched

\* The patterns in the opposite order
Reversed(patterns) == [k \in 1..Len(patterns) |-> patterns[Len(patterns) + 1 - k]]

\* At most one of the patterns tried on value matches it, and the loop gives
\* the same match in either order.
OrderIndependent(value) ==
    /\ Cardinality({k \in 1..Len(PatternsFor(value)) :
                        Matches(PatternsFor(value)[k], value)}) <= 1
    /\ first_match(PatternsFor(value), 1, value)
           = first_match(Reversed(PatternsFor(value)), 1, value)

\* C30: every pattern registered under a representation type and a length
\* matches only strings of exactly that length, and at most one of the
\* patterns registered for the type and length of a string matches it, so
\* that the result of parse_iso does not depend on the order of the patterns.
C30_MatchesOnlyItsLength ==
    op.name = "parse_iso" =>
        /\ \A n \in DOMAIN TableOf(MatchedValue) :
               \A k \in 1..Len(TableOf(MatchedValue)[n]) :
                   Matches(TableOf(MatchedValue)[n][k], MatchedValue)
                       => Len(MatchedValue) = n
        /\ OrderIndependent(MatchedValue)

\* C30, amended: every pattern registered under a representation type and a
\* length matches exactly that many characters at the start of a string, and
\* at most one of the patterns registered for the type and length of a string
\* matches it, so that the result of parse_iso does not depend on the order of
\* the patterns.
C30_MatchesItsLengthAtTheStart ==
    op.name = "parse_iso" =>
        /\ \A n \in DOMAIN TableOf(MatchedValue) :
               \A k \in 1..Len(TableOf(MatchedValue)[n]) :
                   PatternWidth(TableOf(MatchedValue)[n][k], 1) = n
        /\ OrderIndependent(MatchedValue)

\* A string of a length with several patterns was parsed, and the pattern
\* that matched it is not the first one tried.
C30_LaterPatternMatched ==
    /\ op.name = "parse_iso" /\ err = "none"
    /\ Len(PatternsFor(MatchedValue)) > 1
    /\ ~Matches(PatternsFor(MatchedValue)[1], MatchedValue)
    /\ \E k \in 2..Len(PatternsFor(MatchedValue)) :
           Matches(PatternsFor(MatchedValue)[k], MatchedValue)

====
